---- MODULE Spec2Model ----
(***************************************************************************)
(* Model of the skillsight edge worker (src/worker/src/index.ts): the      *)
(* per-client rate limiter, the edge cache / in-process cache tiers, the   *)
(* latest-manifest resolver and the request router.                        *)
(*                                                                         *)
(* Strings are modelled as sequences of symbols so that trimming and       *)
(* length checks can be computed.  Times are milliseconds.                 *)
(***************************************************************************)
EXTENDS Integers, Sequences, FiniteSets, TLC

VARIABLES
    now,                   \* Date.now()
    rateLimitByClient,     \* Map<string, RateLimitState>          index.ts:154
    lastRateLimitSweepMs,  \* index.ts:155
    rlLast,                \* observation: outcome of the latest enforceRateLimit call
    probe,                 \* observation: admissions counted in one 60 s interval
    ticks,                 \* number of clock advances so far (bounded)
    envBound,              \* env.SKILLSIGHT_DATA is bound
    bucket,                \* the R2 bucket: key -> text, for the objects that exist
    edgeCache,             \* caches.default: cache suffix -> text
    cachedLatestManifest,  \* index.ts:157
    parsedSearchCache,     \* index.ts:156
    req,                   \* the requests in flight, by slot
    served,                \* number of requests begun so far (bounded)
    web                    \* the web API client: its promises and request caches

rlVars == <<now, rateLimitByClient, lastRateLimitSweepMs, rlLast, probe, ticks>>
dataVars == <<envBound, bucket, edgeCache, cachedLatestManifest, parsedSearchCache, req, served>>
vars == <<rlVars, dataVars, web>>

----------------------------------------------------------------------------
(* Program constants *)

RATE_LIMIT_WINDOW_MS == 60000
RATE_LIMIT_MAX_REQUESTS == 60
IN_MEMORY_CACHE_TTL_MS == 60000

(* Bounds of the model *)

StartMs == 100000      \* Date.now() at the first request
MaxTicks == 2          \* clock advances per behaviour
MaxOtherRequests == 1  \* requests sent by clients other than the busy one
MaxOdd == 1            \* objects of the store that are missing or malformed
MaxRequests == 2       \* requests per behaviour of the worker
MaxPad == 1            \* spaces before and after a query
MaxWebCalls == 3       \* calls of the web API client per behaviour
MaxComebacks == 3      \* calls of the busy client per 60 s span, where they are bounded

Null == "null"
None == 0 - 1     \* an absent number
NoClient == <<>>  \* an absent client id

\* the web API client before its first call: manifestPromise and
\* slimSearchIndexPromise null (0), jsonRequestCache empty, no promise made
NoWeb == [manifestPromise |-> 0, slimSearchIndexPromise |-> 0, jsonRequestCache |-> <<>>,
          promises |-> <<>>, calls |-> 0]

----------------------------------------------------------------------------
(* Small helpers *)

Max(a, b) == IF a >= b THEN a ELSE b
Min(a, b) == IF a <= b THEN a ELSE b

\* Math.ceil(a / b) for b > 0
CeilDiv(a, b) == -((-a) \div b)

RECURSIVE TrimStart(_)
TrimStart(s) ==
    IF s = <<>> THEN <<>>
    ELSE IF Head(s) = " " THEN TrimStart(Tail(s)) ELSE s

RECURSIVE TrimEnd(_)
TrimEnd(s) ==
    IF s = <<>> THEN <<>>
    ELSE IF s[Len(s)] = " " THEN TrimEnd(SubSeq(s, 1, Len(s) - 1)) ELSE s

\* a trim that leaves the text as it is
TrimNone(s) == s

\* String.prototype.trim
Trim(s) == TrimEnd(TrimStart(s))

----------------------------------------------------------------------------
(* Rate limiter *)

UNKNOWN_CLIENT == <<"unknown-client">>

NoHeader == <<"<absent>">>

\* values of the CF-Connecting-IP header a request may carry
BusyIp == <<"203.0.113.7">>
ClientHeaders == {NoHeader, <<" ">>, BusyIp, <<" ">> \o BusyIp \o <<" ">>}

getRateLimitClientId(header) ==
    LET clientIp == IF header = NoHeader THEN <<>> ELSE Trim(header)
    IN  IF Len(clientIp) > 0 THEN clientIp ELSE UNKNOWN_CLIENT

\* variant: a due sweep empties the map
SweptMapAll(map, sweepMs, nowMs) ==
    IF nowMs - sweepMs < RATE_LIMIT_WINDOW_MS THEN map ELSE [c \in {} |-> Null]

\* the map after sweepExpiredRateLimitEntries(nowMs)
SweptMap(map, sweepMs, nowMs) ==
    IF nowMs - sweepMs < RATE_LIMIT_WINDOW_MS THEN map
    ELSE [c \in {k \in DOMAIN map : ~(nowMs - map[k].windowStartMs >= RATE_LIMIT_WINDOW_MS)}
            |-> map[c]]

SweptAt(sweepMs, nowMs) ==
    IF nowMs - sweepMs < RATE_LIMIT_WINDOW_MS THEN sweepMs ELSE nowMs

rateLimitHeaders(limit, remaining, resetEpochSeconds) ==
    [limit |-> limit, remaining |-> Max(0, remaining), reset |-> resetEpochSeconds]

NoHeaders == [limit |-> None, remaining |-> None, reset |-> None]

\* variant: capacity test off by one
AtCapacityOffByOne(state) == state.count > RATE_LIMIT_MAX_REQUESTS

AtCapacity(state) == state.count >= RATE_LIMIT_MAX_REQUESTS

\* variant: rounds the remaining time down
RetryAfterFloor(state, nowMs) ==
    Max(1, (state.windowStartMs + RATE_LIMIT_WINDOW_MS - nowMs) \div 1000)

\* variant: a window has elapsed only after its last instant
WindowElapsedLate(state, nowMs) == nowMs - state.windowStartMs > RATE_LIMIT_WINDOW_MS

WindowElapsed(state, nowMs) == nowMs - state.windowStartMs >= RATE_LIMIT_WINDOW_MS

RetryAfterSeconds(state, nowMs) ==
    Max(1, CeilDiv(state.windowStartMs + RATE_LIMIT_WINDOW_MS - nowMs, 1000))

\* enforceRateLimit: the new map, the new sweep time and the decision
enforceRateLimit(map, sweepMs, nowMs, header) ==
    LET swept == SweptMap(map, sweepMs, nowMs)
        clientId == getRateLimitClientId(header)
        has == clientId \in DOMAIN swept
        current == IF has THEN swept[clientId] ELSE [windowStartMs |-> 0, count |-> 0]
    IN  IF ~has \/ WindowElapsed(current, nowMs) THEN
            LET next == [windowStartMs |-> nowMs, count |-> 1]
            IN  [map |-> [c \in DOMAIN swept \cup {clientId} |->
                            IF c = clientId THEN next ELSE swept[c]],
                 sweepMs |-> SweptAt(sweepMs, nowMs),
                 clientId |-> clientId,
                 branch |-> "fresh",
                 blocked |-> FALSE, status |-> None, error |-> Null,
                 retryAfter |-> None,
                 headers |-> rateLimitHeaders(RATE_LIMIT_MAX_REQUESTS,
                                RATE_LIMIT_MAX_REQUESTS - next.count,
                                CeilDiv(next.windowStartMs + RATE_LIMIT_WINDOW_MS, 1000))]
        ELSE IF AtCapacity(current) THEN
            [map |-> swept,
             sweepMs |-> SweptAt(sweepMs, nowMs),
             clientId |-> clientId,
             branch |-> "blocked",
             blocked |-> TRUE, status |-> 429, error |-> "Too Many Requests",
             retryAfter |-> RetryAfterSeconds(current, nowMs),
             headers |-> rateLimitHeaders(RATE_LIMIT_MAX_REQUESTS, 0,
                            CeilDiv(current.windowStartMs + RATE_LIMIT_WINDOW_MS, 1000))]
        ELSE
            LET bumped == [current EXCEPT !.count = @ + 1]
            IN  [map |-> [swept EXCEPT ![clientId] = bumped],
                 sweepMs |-> SweptAt(sweepMs, nowMs),
                 clientId |-> clientId,
                 branch |-> "counted",
                 blocked |-> FALSE, status |-> None, error |-> Null,
                 retryAfter |-> None,
                 headers |-> rateLimitHeaders(RATE_LIMIT_MAX_REQUESTS,
                                RATE_LIMIT_MAX_REQUESTS - bumped.count,
                                CeilDiv(bumped.windowStartMs + RATE_LIMIT_WINDOW_MS, 1000))]

----------------------------------------------------------------------------
(* Specification SpecRL: requests hitting the rate limiter as time passes *)

EmptyMap == [c \in {} |-> Null]

\* outcome of the latest call; sent/firstAt number the busy client's requests
\* from the request that opened its current 60 s span; unswept is the outcome
\* of the same calls on a limiter whose sweep is never due; retryAt holds, for
\* a client that was blocked, the instant the Retry-After of its latest block
\* names, open until the client's next call is admitted (at is 0 from then on)
NoCall == [clientId |-> NoClient, at |-> 0, blocked |-> FALSE,
           status |-> None, error |-> Null, retryAfter |-> None, headers |-> NoHeaders,
           before |-> Null, sent |-> 0, firstAt |-> 0, others |-> 0,
           unswept |-> [map |-> EmptyMap, blocked |-> FALSE, retryAfter |-> None,
                        headers |-> NoHeaders],
           retryAt |-> EmptyMap]

NoProbe == [on |-> FALSE, clientId |-> NoClient, start |-> 0, count |-> 0, aligned |-> FALSE,
            refused |-> FALSE]

\* an interval of one window length beginning at the instant startMs
ProbeAt(startMs) == [NoProbe EXCEPT !.on = TRUE, !.start = startMs]

\* clock steps: one millisecond, and one millisecond short of a window
TickSteps == {1, RATE_LIMIT_WINDOW_MS - 1}

\* the storage side of the worker, unused
DataIdle ==
    /\ envBound = FALSE
    /\ bucket = <<>>
    /\ edgeCache = <<>>
    /\ cachedLatestManifest = [key |-> 0, loadedAtMs |-> 0, doc |-> 0]
    /\ parsedSearchCache = [key |-> 0, loadedAtMs |-> 0, doc |-> 0]
    /\ req = <<>>
    /\ served = 0
    /\ web = NoWeb

InitRL ==
    /\ now = StartMs
    /\ rateLimitByClient = EmptyMap
    /\ lastRateLimitSweepMs = 0
    /\ rlLast = NoCall
    /\ probe = NoProbe
    /\ ticks = 0
    /\ DataIdle

\* the interval observation after a call at nowMs: admissions of one client
\* (the first admitted in the interval) at instants in [start, start + window)
\* are counted; the interval is aligned when it begins with a fresh window
ProbeAfter(p, r, nowMs) ==
    IF ~p.on \/ ~(nowMs - p.start < RATE_LIMIT_WINDOW_MS) THEN p
    ELSE IF r.blocked THEN
        IF p.clientId = r.clientId THEN [p EXCEPT !.refused = TRUE] ELSE p
    ELSE IF p.clientId = NoClient THEN
        [p EXCEPT !.clientId = r.clientId, !.count = 1,
                  !.aligned = (r.branch = "fresh" /\ nowMs = p.start)]
    ELSE IF p.clientId = r.clientId THEN [p EXCEPT !.count = @ + 1]
    ELSE p

\* one request reaches enforceRateLimit
RLRequest(header) ==
    LET r == enforceRateLimit(rateLimitByClient, lastRateLimitSweepMs, now, header)
        other == r.clientId # BusyIp
        opens == rlLast.sent = 0 \/ now - rlLast.firstAt >= RATE_LIMIT_WINDOW_MS
    IN  /\ other => rlLast.others < MaxOtherRequests
        /\ rateLimitByClient' = r.map
        /\ lastRateLimitSweepMs' = r.sweepMs
        /\ rlLast' = [clientId |-> r.clientId, at |-> now,
                      blocked |-> r.blocked, status |-> r.status,
                      error |-> r.error, retryAfter |-> r.retryAfter, headers |-> r.headers,
                      before |-> IF r.clientId \in DOMAIN rateLimitByClient
                                 THEN rateLimitByClient[r.clientId] ELSE Null,
                      sent |-> IF other THEN rlLast.sent
                               ELSE IF opens THEN 1
                               ELSE Min(rlLast.sent + 1, RATE_LIMIT_MAX_REQUESTS + 2),
                      firstAt |-> IF ~other /\ opens THEN now ELSE rlLast.firstAt,
                      others |-> IF other THEN rlLast.others + 1 ELSE rlLast.others,
                      unswept |->
                          LET u == enforceRateLimit(rlLast.unswept.map, now, now, header)
                          IN  [map |-> u.map, blocked |-> u.blocked,
                               retryAfter |-> u.retryAfter, headers |-> u.headers],
                      retryAt |->
                          [c \in IF r.blocked THEN DOMAIN rlLast.retryAt \cup {r.clientId}
                                 ELSE DOMAIN rlLast.retryAt |->
                              IF c # r.clientId THEN rlLast.retryAt[c]
                              ELSE IF r.blocked
                              THEN [at |-> now + r.retryAfter * 1000, open |-> TRUE]
                              ELSE [at |-> 0, open |-> FALSE]]]
        /\ probe' = ProbeAfter(probe, r, now)
        /\ UNCHANGED <<web, now, ticks, dataVars>>

\* the clock advances; an observed interval may begin at the new instant
RLTick(d, start) ==
    /\ ticks < MaxTicks
    /\ now' = now + d
    /\ ticks' = ticks + 1
    /\ probe' = IF start /\ ~probe.on THEN ProbeAt(now + d) ELSE probe
    /\ start => ~probe.on
    /\ UNCHANGED <<web, rateLimitByClient, lastRateLimitSweepMs, rlLast, dataVars>>

NextRL ==
    \/ \E h \in ClientHeaders : RLRequest(h)
    \/ \E d \in TickSteps : RLTick(d, FALSE)

SpecRL == InitRL /\ [][NextRL]_vars

----------------------------------------------------------------------------
(* Specification SpecRoll: one client's admissions counted over an interval *)
(* of one window length that begins at an arbitrary instant                 *)

InitRoll ==
    /\ now = StartMs
    /\ rateLimitByClient = EmptyMap
    /\ lastRateLimitSweepMs = 0
    /\ rlLast = NoCall
    /\ probe \in {NoProbe, ProbeAt(StartMs)}
    /\ ticks = 0
    /\ DataIdle

NextRoll ==
    \/ RLRequest(BusyIp)
    \/ \E d \in TickSteps, start \in BOOLEAN : RLTick(d, start)

SpecRoll == InitRoll /\ [][NextRoll]_vars

----------------------------------------------------------------------------
(* Specification SpecRetry: clients that come back after a block, also   *)
(* to a window that a sweep has found live                               *)

\* the clock steps of SpecRL and a step of 59 s
RetrySteps == TickSteps \cup {59 * 1000}

\* the busy client at capacity in a window begun 1 s ago, 1 ms before the
\* latest sweep
InitRetry ==
    /\ now = StartMs
    /\ rateLimitByClient =
          [c \in {BusyIp} |->
              [windowStartMs |-> StartMs - 1000, count |-> RATE_LIMIT_MAX_REQUESTS]]
    /\ lastRateLimitSweepMs = StartMs - 999
    /\ rlLast = [NoCall EXCEPT !.unswept.map = rateLimitByClient]
    /\ probe = NoProbe
    /\ ticks = 0
    /\ DataIdle

NextRetry ==
    \/ \E h \in {NoHeader, BusyIp} :
          (h = BusyIp => rlLast.sent < MaxComebacks) /\ RLRequest(h)
    \/ \E d \in RetrySteps : RLTick(d, FALSE)

SpecRetry == InitRetry /\ [][NextRetry]_vars

----------------------------------------------------------------------------
(* Dates *)

\* a snapshot_date string: "ymd" when it matches DATE_RE, "text" when it is
\* some other non-empty string, "absent" when there is none
Ymd(y, m, d) == [kind |-> "ymd", y |-> y, m |-> m, d |-> d]
NoDate == [kind |-> "absent", y |-> 0, m |-> 0, d |-> 0]

DaysInMonth(y, m) ==
    IF m = 2 THEN (IF (y % 4 = 0 /\ y % 100 # 0) \/ y % 400 = 0 THEN 29 ELSE 28)
    ELSE IF m \in {4, 6, 9, 11} THEN 30 ELSE 31

\* isDateString: DATE_RE matches and Date.UTC(y, m - 1, d) gives back y, m, d
\* (Date.UTC maps the years 0..99 to 1900..1999, so they never round-trip)
isDateString(value) ==
    /\ value.kind = "ymd"
    /\ value.y >= 100
    /\ value.m \in 1..12
    /\ value.d \in 1..DaysInMonth(value.y, value.m)

\* the snapshot of the test fixtures, 2025-01-15, and 2025-13-40
SnapDate == Ymd(2025, 1, 15)
BadCalendarDate == Ymd(2025, 13, 40)

----------------------------------------------------------------------------
(* Storage keys, cache suffixes, documents *)

Key(k, date, page, id) == [k |-> k, date |-> date, page |-> page, id |-> id]

LATEST_MANIFEST_KEY == Key("data/v1/latest.json", NoDate, 0, <<>>)
LATEST_SNAPSHOT_KEY == Key("snapshots/latest.json", NoDate, 0, <<>>)
SEARCH_INDEX_KEY(snapshotDate) ==
    Key("data/v1/snapshots/<date>/search/slim-index.json", snapshotDate, 0, <<>>)
SNAPSHOT_SKILLS_MANIFEST_KEY(snapshotDate) ==
    Key("snapshots/<date>/skills_manifest.json", snapshotDate, 0, <<>>)
SNAPSHOT_SKILLS_PAGE_KEY(snapshotDate, page) ==
    Key("snapshots/<date>/skills_pages/page-<page>.json", snapshotDate, page, <<>>)
SNAPSHOT_SKILL_LOOKUP_KEY(snapshotDate) ==
    Key("snapshots/<date>/skill_lookup.json", snapshotDate, 0, <<>>)

\* the URL of cacheRequest(request, suffix); every request has the same origin
cacheRequest(s, of, date, page, id) ==
    [s |-> s, of |-> of, date |-> date, page |-> page, id |-> id]

\* texts: the text of an object that parses to val, "{not-json", "" and no text
JsonText(val) == [json |-> "ok", val |-> val]
NilVal == [t |-> "nil"]
BadJsonText == [json |-> "bad", val |-> NilVal]
EmptyText == [json |-> "empty", val |-> NilVal]
NoText == [json |-> "none", val |-> NilVal]

\* !text
Falsy(text) == text.json \in {"none", "empty"}

\* characters
Lower(ch) ==
    CASE ch = "A" -> "a" [] ch = "B" -> "b" [] ch = "G" -> "g" [] ch = "T" -> "t"
      [] OTHER -> ch

toLowerCase(str) == [i \in 1..Len(str) |-> Lower(str[i])]

\* String.prototype.includes
includes(str, part) ==
    \E i \in 0..(Len(str) - Len(part)) : SubSeq(str, i + 1, i + Len(part)) = part

\* the fixtures of index.test.ts, and a third skill on the second raw page
IdAlpha == <<"o", "/", "r", "/", "a", "l", "p", "h", "a">>
IdBeta == <<"o", "/", "r", "/", "b", "e", "t", "a">>
IdGamma == <<"o", "/", "r", "/", "g", "a", "m", "m", "a">>
SourceOR == <<"o", "/", "r">>
NameAlpha == <<"A", "l", "p", "h", "a", " ", "T", "o", "o", "l">>
NameBeta == <<"B", "e", "t", "a", " ", "T", "o", "o", "l">>
NameGamma == <<"G", "a", "m", "m", "a">>

IndexItem(id, skillId, name, total, weekly, rank) ==
    [id |-> id, skill_id |-> skillId, owner |-> <<"o">>, repo |-> <<"r">>, name |-> name,
     total_installs |-> total, weekly_installs |-> weekly, rank_at_fetch |-> rank]

LatestDoc(date) ==
    [t |-> "latest", snapshot_date |-> date, page_size |-> None, total_skills |-> None]
LegacyLatestDoc(date) == [t |-> "legacy-latest", date |-> date]
SkillsManifestDoc ==
    [t |-> "skills-manifest", snapshot_date |-> SnapDate, total_skills |-> 3,
     page_size |-> 2, page_count |-> 2]
SlimIndexDoc(date, isArray) ==
    [t |-> "slim-index", snapshot_date |-> date, isArray |-> isArray,
     items |-> IF isArray
               THEN << IndexItem(IdAlpha, SubSeq(IdAlpha, 5, 9), NameAlpha, 100, 10, 1),
                       IndexItem(IdBeta, SubSeq(IdBeta, 5, 8), NameBeta, 50, 20, 2) >>
               ELSE <<>>]
Row(skillId, name, installs) ==
    [source |-> SourceOR, skillId |-> skillId, name |-> name, installs |-> installs]
PageDoc(rows) == [t |-> "page", rows |-> rows]
LookupDoc ==
    [t |-> "lookup", snapshot_date |-> SnapDate, total_entries |-> 3,
     order |-> <<IdAlpha, IdBeta, IdGamma>>,
     entries |-> [id \in {IdAlpha, IdBeta, IdGamma} |->
                    IF id = IdAlpha THEN [page |-> 1, index |-> 0]
                    ELSE IF id = IdBeta THEN [page |-> 1, index |-> 1]
                    ELSE [page |-> 2, index |-> 0]]]

\* the objects of one complete, well-formed snapshot
Nominal ==
    [k \in {LATEST_MANIFEST_KEY, LATEST_SNAPSHOT_KEY, SEARCH_INDEX_KEY(SnapDate),
            SNAPSHOT_SKILLS_MANIFEST_KEY(SnapDate), SNAPSHOT_SKILL_LOOKUP_KEY(SnapDate),
            SNAPSHOT_SKILLS_PAGE_KEY(SnapDate, 1), SNAPSHOT_SKILLS_PAGE_KEY(SnapDate, 2)} |->
        CASE k = LATEST_MANIFEST_KEY -> JsonText(LatestDoc(SnapDate))
          [] k = LATEST_SNAPSHOT_KEY -> JsonText(LegacyLatestDoc(SnapDate))
          [] k = SEARCH_INDEX_KEY(SnapDate) -> JsonText(SlimIndexDoc(SnapDate, TRUE))
          [] k = SNAPSHOT_SKILLS_MANIFEST_KEY(SnapDate) -> JsonText(SkillsManifestDoc)
          [] k = SNAPSHOT_SKILL_LOOKUP_KEY(SnapDate) -> JsonText(LookupDoc)
          [] k = SNAPSHOT_SKILLS_PAGE_KEY(SnapDate, 1) ->
                JsonText(PageDoc(<<Row(SubSeq(IdAlpha, 5, 9), NameAlpha, 100),
                                   Row(SubSeq(IdBeta, 5, 8), NameBeta, 50)>>))
          [] OTHER -> JsonText(PageDoc(<<Row(SubSeq(IdGamma, 5, 9), NameGamma, 7)>>))]

\* what an object may hold instead: nothing (the object is missing), an empty
\* text, malformed JSON, or well-formed JSON of the wrong content
Odd(k) ==
    CASE k = LATEST_MANIFEST_KEY ->
            {NoText, EmptyText, BadJsonText, JsonText(LatestDoc(BadCalendarDate))}
      [] k = LATEST_SNAPSHOT_KEY -> {NoText, BadJsonText}
      [] k = SEARCH_INDEX_KEY(SnapDate) ->
            {NoText, EmptyText, BadJsonText, JsonText(SlimIndexDoc(SnapDate, FALSE))}
      [] k = SNAPSHOT_SKILL_LOOKUP_KEY(SnapDate) -> {NoText, BadJsonText}
      [] k = SNAPSHOT_SKILLS_MANIFEST_KEY(SnapDate) -> {NoText}
      [] k = SNAPSHOT_SKILLS_PAGE_KEY(SnapDate, 1) -> {NoText}
      [] OTHER -> {}

\* makeBucket({}) of index.test.ts
EmptyBucket == [k \in {} |-> NoText]

\* the stores the worker may face: a snapshot with at most MaxOdd odd objects,
\* or a bucket without objects
Stores ==
    {EmptyBucket} \cup
    UNION {{[k \in DOMAIN Nominal |-> IF k \in DOMAIN odd THEN odd[k] ELSE Nominal[k]] :
              odd \in {f \in [D -> UNION {Odd(k) : k \in D}] :
                                        \A k \in D : f[k] \in Odd(k)}} :
           D \in {E \in SUBSET DOMAIN Nominal : Cardinality(E) <= MaxOdd}}

\* bucket.get(key): the text of the object, NoText when there is none
BucketGet(b, key) == IF key \in DOMAIN b THEN b[key] ELSE NoText

\* a cache.put of a response whose body was already read: stores an empty text
CachePutConsumed(c, url, text) ==
    [u \in DOMAIN c \cup {url} |-> IF u = url THEN EmptyText ELSE c[u]]

CachePut(c, url, text) == [u \in DOMAIN c \cup {url} |-> IF u = url THEN text ELSE c[u]]

----------------------------------------------------------------------------
(* Pure helpers of the router *)

SORT_MODES == {"installs", "weekly", "name"}
NoParam == "<absent>"

\* a check that lets every sort through
isSortModeAny(value) == TRUE

isSortMode(value) == value \in SORT_MODES

\* a numeric query parameter: absent, not a number, or the integer n
AbsentNum == [kind |-> "absent", n |-> 0]
Num(n) == [kind |-> "num", n |-> n]

\* parsePositiveInt: Number(null) is 0, so only a non-numeric text takes the fallback
parsePositiveInt(value, fallback) ==
    IF value.kind = "nan" THEN fallback
    ELSE IF value.kind = "absent" THEN 0
    ELSE value.n

\* rank of a character in localeCompare order: punctuation, then letters
\* without regard to case
Letters == <<" ", "/", "a", "b", "e", "g", "h", "l", "m", "o", "p", "r", "t">>
CharRank(ch) == CHOOSE i \in 1..Len(Letters) : Letters[i] = Lower(ch)

RECURSIVE RankLess(_, _)
RankLess(a, b) ==
    IF a = <<>> THEN b # <<>>
    ELSE IF b = <<>> THEN FALSE
    ELSE IF CharRank(Head(a)) # CharRank(Head(b)) THEN CharRank(Head(a)) < CharRank(Head(b))
    ELSE RankLess(Tail(a), Tail(b))

RECURSIVE CaseLess(_, _)
\* among texts equal without regard to case, lower case sorts first
CaseLess(a, b) ==
    IF a = <<>> \/ b = <<>> THEN FALSE
    ELSE IF Head(a) # Head(b) THEN Lower(Head(a)) = Head(a)
    ELSE CaseLess(Tail(a), Tail(b))

\* a.localeCompare(b) < 0
LocaleLess(a, b) ==
    \/ RankLess(a, b)
    \/ ~RankLess(b, a) /\ CaseLess(a, b)

\* x ?? 0 for a number that may be absent
OrZero(n) == IF n = None THEN 0 ELSE n

\* a comparator that sorts the numbers in ascending order
SortBeforeAscending(a, b, sort) ==
    IF sort = "name" THEN LocaleLess(a.name, b.name)
    ELSE IF sort = "weekly" THEN OrZero(a.weekly_installs) - OrZero(b.weekly_installs) < 0
    ELSE OrZero(a.total_installs) - OrZero(b.total_installs) < 0

\* the comparator of sortItems says a goes before b
SortBefore(a, b, sort) ==
    IF sort = "name" THEN LocaleLess(a.name, b.name)
    ELSE IF sort = "weekly" THEN OrZero(b.weekly_installs) - OrZero(a.weekly_installs) < 0
    ELSE OrZero(b.total_installs) - OrZero(a.total_installs) < 0

RECURSIVE InsertSortedBeforeTies(_, _, _)
\* x placed before the elements it ties with (a sort that is not stable)
InsertSortedBeforeTies(sorted, x, sort) ==
    IF sorted = <<>> THEN <<x>>
    ELSE IF ~SortBefore(Head(sorted), x, sort) THEN <<x>> \o sorted
    ELSE <<Head(sorted)>> \o InsertSortedBeforeTies(Tail(sorted), x, sort)

RECURSIVE InsertSorted(_, _, _)
\* x placed after every element that does not go after it (a stable sort)
InsertSorted(sorted, x, sort) ==
    IF sorted = <<>> THEN <<x>>
    ELSE IF SortBefore(x, Head(sorted), sort) THEN <<x>> \o sorted
    ELSE <<Head(sorted)>> \o InsertSorted(Tail(sorted), x, sort)

RECURSIVE sortItems(_, _)
\* sortItems: [...items].sort(comparator); Array.prototype.sort is stable
sortItems(items, sort) ==
    IF items = <<>> THEN <<>>
    ELSE InsertSorted(sortItems(SubSeq(items, 1, Len(items) - 1), sort), items[Len(items)], sort)

RECURSIVE SelectSeq2(_, _)
\* items.filter(item => name or id includes query)
SelectSeq2(items, query) ==
    IF items = <<>> THEN <<>>
    ELSE LET item == Head(items)
             hit == includes(toLowerCase(item.name), query) \/ includes(toLowerCase(item.id), query)
         IN  (IF hit THEN <<item>> ELSE <<>>) \o SelectSeq2(Tail(items), query)

\* Array.prototype.slice(start, end)
slice(arr, start, end) == SubSeq(arr, start + 1, Min(end, Len(arr)))

\* the response body of the indexed path of /v1/search
\* a sortItems that sorts the array it is handed
ItemsAfterSortInPlace(items, sort) == sortItems(items, sort)

\* the array handed to sortItems, after the call: [...items].sort() sorts a copy
ItemsAfterSort(items, sort) == items

IndexedPayload(index, query, sort, page, pageSize) ==
    LET sorted == sortItems(SelectSeq2(index.items, query), sort)
        start == (page - 1) * pageSize
    IN  [items |-> slice(sorted, start, start + pageSize), page |-> page,
         page_size |-> pageSize, total |-> Len(sorted), snapshot_date |-> index.snapshot_date]

\* position of the first "/" of a text, 0 when there is none
FirstSlash(str) ==
    IF \E i \in 1..Len(str) : str[i] = "/"
    THEN CHOOSE i \in 1..Len(str) : str[i] = "/" /\ \A j \in 1..(i - 1) : str[j] # "/"
    ELSE 0

parseSource(source) ==
    LET at == FirstSlash(source)
    IN  IF at <= 1 THEN [owner |-> source, repo |-> source]
        ELSE [owner |-> SubSeq(source, 1, at - 1), repo |-> SubSeq(source, at + 1, Len(source))]

\* a projection that reports no weekly installs as 0
snapshotItemToSkillListItemZeroWeekly(item, rank) ==
    [id |-> item.source \o <<"/">> \o item.skillId,
     skill_id |-> item.skillId,
     owner |-> parseSource(item.source).owner,
     repo |-> parseSource(item.source).repo,
     name |-> item.name,
     total_installs |-> item.installs,
     weekly_installs |-> 0,
     rank_at_fetch |-> rank,
     description |-> Null,
     platform_installs |-> Null]

snapshotItemToSkillListItem(item, rank) ==
    [id |-> item.source \o <<"/">> \o item.skillId,
     skill_id |-> item.skillId,
     owner |-> parseSource(item.source).owner,
     repo |-> parseSource(item.source).repo,
     name |-> item.name,
     total_installs |-> item.installs,
     weekly_installs |-> None,
     rank_at_fetch |-> rank,
     description |-> Null,
     platform_installs |-> Null]

----------------------------------------------------------------------------
(* Requests in flight *)

NoKey == Key("", NoDate, 0, <<>>)
NoLoad == [stage |-> "none", key |-> NoKey, url |-> cacheRequest("", "", NoDate, 0, <<>>), text |-> NoText]
NoCached == [key |-> NoKey, loadedAtMs |-> None, doc |-> NilVal]
NoResp == [status |-> None, error |-> [msg |-> "", key |-> NoKey], body |-> NilVal, rl |-> NoHeaders,
           cc |-> ""]
NoFallback == [sel |-> <<>>, i |-> 1, pages |-> <<>>, items |-> <<>>, total |-> 0,
               rawPageSize |-> 0]
NoInput == [method |-> "", route |-> "", header |-> NoHeader, q |-> <<>>, sort |-> NoParam,
            snap |-> NoDate, page |-> AbsentNum, pageSize |-> AbsentNum, key |-> NoKey,
            path |-> <<>>]

\* phase: idle, run (between two suspension points) or done (response built);
\* pc: the awaiting callers, innermost first. History of the request, kept
\* with its response: io, the edge-cache and bucket operations performed; got,
\* the keys read from the bucket; nullLatest, loadLatestManifest returned null;
\* badKey, the key of the text parseJson rejected
IdleReq ==
    [phase |-> "idle", pc |-> <<>>, inp |-> NoInput, load |-> NoLoad, ret |-> NilVal,
     snapshotDate |-> NoDate, t0 |-> 0, manifest |-> NilVal, rl |-> NoHeaders,
     query |-> <<>>, sort |-> "", page |-> 0, pageSize |-> 0, fb |-> NoFallback,
     latest |-> NilVal, sm |-> NilVal, summary |-> NilVal, rows |-> <<>>,
     skillId |-> <<>>, entry |-> [page |-> 0, index |-> 0], raw |-> NilVal,
     resp |-> NoResp, io |-> 0, got |-> {}, nullLatest |-> FALSE, badKey |-> NoKey]

\* a json() that answers 404 where the router asked for 503
RespondUnavailableAsNotFound(r, status, msg, key, body, rlh, cc) ==
    [IdleReq EXCEPT !.phase = "done", !.inp = r.inp, !.io = r.io, !.got = r.got,
        !.nullLatest = r.nullLatest, !.badKey = r.badKey,
        !.resp = [status |-> IF status = 503 THEN 404 ELSE status,
                  error |-> [msg |-> msg, key |-> key], body |-> body, rl |-> rlh,
                  cc |-> IF cc = "" /\ status \in 200..299
                         THEN "public, max-age=60, s-maxage=60" ELSE cc]]

\* a json() that answers 200 where the router asked for 405
RespondNotAllowedAsOk(r, status, msg, key, body, rlh, cc) ==
    [IdleReq EXCEPT !.phase = "done", !.inp = r.inp, !.io = r.io, !.got = r.got,
        !.nullLatest = r.nullLatest, !.badKey = r.badKey,
        !.resp = [status |-> IF status = 405 THEN 200 ELSE status,
                  error |-> [msg |-> msg, key |-> key], body |-> body, rl |-> rlh,
                  cc |-> IF cc = "" /\ status \in 200..299
                         THEN "public, max-age=60, s-maxage=60" ELSE cc]]

\* json(data, {status, headers}): the response ends the request
Respond(r, status, msg, key, body, rlh, cc) ==
    [IdleReq EXCEPT !.phase = "done", !.inp = r.inp, !.io = r.io, !.got = r.got,
        !.nullLatest = r.nullLatest, !.badKey = r.badKey,
        !.resp = [status |-> status, error |-> [msg |-> msg, key |-> key], body |-> body,
                  rl |-> rlh,
                  cc |-> IF cc = "" /\ status \in 200..299
                         THEN "public, max-age=60, s-maxage=60" ELSE cc]]

Push(r, frames) == [r EXCEPT !.pc = frames \o @]

\* an async function that returns without suspending on I/O
Ready(r, val) == [r EXCEPT !.load.stage = "ready", !.ret = val]

\* loadJsonTextWithCache(env, key, request, cacheSuffix), awaited by frames
CallText(r, key, url, frames) ==
    LET r1 == [Push(r, frames) EXCEPT !.load = [NoLoad EXCEPT !.key = key, !.url = url]]
    IN  IF envBound THEN [r1 EXCEPT !.load.stage = "match"] ELSE Ready(r1, NoText)

\* loadJsonObjectWithCache
CallObj(r, key, url, frames) == CallText(r, key, url, <<"obj">> \o frames)

loadSnapshotSkillsManifest(r, date, frames) ==
    CallObj(r, SNAPSHOT_SKILLS_MANIFEST_KEY(date),
            cacheRequest("snapshot-skills-manifest", "", date, 0, <<>>), frames)

loadSnapshotSkillsPage(r, date, page, frames) ==
    CallObj(r, SNAPSHOT_SKILLS_PAGE_KEY(date, page),
            cacheRequest("snapshot-skills-page", "", date, page, <<>>), frames)

loadSnapshotSkillLookup(r, date, frames) ==
    CallObj(r, SNAPSHOT_SKILL_LOOKUP_KEY(date),
            cacheRequest("snapshot-skill-lookup", "", date, 0, <<>>), frames)

\* a freshness test that still trusts the cache at the end of its life
CacheFreshInclusive(cached, nowMs) ==
    cached.doc.t # "nil" /\ nowMs - cached.loadedAtMs <= IN_MEMORY_CACHE_TTL_MS

CacheFresh(cached, nowMs) ==
    cached.doc.t # "nil" /\ nowMs - cached.loadedAtMs < IN_MEMORY_CACHE_TTL_MS

\* variant: the null outcome populates the in-process cache as well
NullResolutionCached(st) ==
    [st EXCEPT !.r.nullLatest = TRUE,
               !.clm = [key |-> NoKey, loadedAtMs |-> st.r.t0, doc |-> NilVal]]

\* if (!snapshotLatestText) return null: before the assignment of the cache
NullResolution(st) == [st EXCEPT !.r.nullLatest = TRUE]

\* loadLatestManifest up to its first await
loadLatestManifest(st, frames) ==
    IF CacheFresh(st.clm, now)
    THEN [st EXCEPT !.r = Ready(Push(st.r, frames), st.clm.doc)]
    ELSE [st EXCEPT !.r = CallText([st.r EXCEPT !.t0 = now], LATEST_MANIFEST_KEY,
                                   cacheRequest("latest-manifest", "", NoDate, 0, <<>>),
                                   <<"llm:web">> \o frames)]

\* loadSearchIndex up to its first await
loadSearchIndex(st, date, frames) ==
    IF st.psc.key = SEARCH_INDEX_KEY(date) /\ CacheFresh(st.psc, now)
    THEN [st EXCEPT !.r = Ready(Push(st.r, frames), st.psc.doc)]
    ELSE [st EXCEPT !.r = CallText([st.r EXCEPT !.t0 = now], SEARCH_INDEX_KEY(date),
                                   cacheRequest("search-index", "", date, 0, <<>>),
                                   <<"lsi">> \o frames)]

\* the /healthz response
HealthzRespond(st, snapshotDate) ==
    [st EXCEPT !.r = Respond(st.r, 200, "", NoKey,
        [t |-> "health", ok |-> TRUE, search_index_loaded |-> st.psc.doc.t # "nil",
         snapshot_date |-> IF snapshotDate.kind # "absent" THEN snapshotDate
                           ELSE IF st.psc.doc.t # "nil" THEN st.psc.doc.snapshot_date
                           ELSE NoDate],
        NoHeaders, "no-store")]

\* an exception that escapes fetch: the promise rejects, no response is built
ThrowRejects(st, msg, key) == [st EXCEPT !.r.load.stage = "none"]

\* an exception that /healthz does not catch
ThrowUncaught(st, msg, key) ==
    [st EXCEPT !.r = Respond(st.r, 500, msg, key, NilVal, NoHeaders, "")]

\* an exception: caught by /healthz around loadLatestManifest, else by fetch
Throw(st, msg, key) ==
    IF \E i \in 1..Len(st.r.pc) : st.r.pc[i] = "hz:latest" THEN HealthzRespond(st, NoDate)
    ELSE [st EXCEPT !.r = Respond(st.r, 500, msg, key, NilVal, NoHeaders, "")]

\* an error that does not say which object failed
InvalidJsonErrorNoKey(key) == [msg |-> "Invalid JSON in", key |-> NoKey]

\* the error of parseJson(text, key) for a text that is not JSON
InvalidJsonError(key) == [msg |-> "Invalid JSON in", key |-> key]

\* parseJson throws
ParseFailure(st, key) ==
    Throw([st EXCEPT !.r.badKey = key], InvalidJsonError(key).msg, InvalidJsonError(key).key)

\* Object.entries(lookup.entries).filter(([id]) => id.toLowerCase().includes(query))
RECURSIVE LookupMatches(_, _, _)
LookupMatches(lookup, order, query) ==
    IF order = <<>> THEN <<>>
    ELSE LET id == Head(order)
         IN  (IF includes(toLowerCase(id), query)
              THEN <<[id |-> id, page |-> lookup.entries[id].page,
                      index |-> lookup.entries[id].index]>>
              ELSE <<>>) \o LookupMatches(lookup, Tail(order), query)

RECURSIVE InsertEntryByPosition(_, _, _)
\* variant: every sort mode orders the entries by page and then index
InsertEntryByPosition(sorted, x, sort) ==
    LET b == Head(sorted)
        before == IF x.page - b.page # 0 THEN x.page - b.page < 0
                  ELSE x.index - b.index < 0
    IN  IF sorted = <<>> THEN <<x>>
        ELSE IF before THEN <<x>> \o sorted
        ELSE <<Head(sorted)>> \o InsertEntryByPosition(Tail(sorted), x, sort)

RECURSIVE InsertEntry(_, _, _)
\* x placed by a[0].localeCompare(b[0]), or by page and then index
InsertEntry(sorted, x, sort) ==
    LET b == Head(sorted)
        before == IF sort = "name" THEN LocaleLess(x.id, b.id)
                  ELSE IF x.page - b.page # 0 THEN x.page - b.page < 0
                  ELSE x.index - b.index < 0
    IN  IF sorted = <<>> THEN <<x>>
        ELSE IF before THEN <<x>> \o sorted
        ELSE <<Head(sorted)>> \o InsertEntry(Tail(sorted), x, sort)

RECURSIVE SortEntries(_, _)
SortEntries(entries, sort) ==
    IF entries = <<>> THEN <<>>
    ELSE InsertEntry(SortEntries(SubSeq(entries, 1, Len(entries) - 1), sort),
                     entries[Len(entries)], sort)

\* variant: an empty page counts as not cached
PageCachedNonEmpty(pages, page) == page \in DOMAIN pages /\ pages[page] # <<>>

\* pageCache.get(ref.page) is truthy: an array, also the empty one of a missing page
PageCached(pages, page) == page \in DOMAIN pages

RECURSIVE FallbackLoop(_)
\* the loop over the selected lookup entries of /v1/search, up to its next
\* page load or to the response
FallbackLoop(r) ==
    IF r.fb.i > Len(r.fb.sel) THEN
        Respond(r, 200, "", NoKey,
                [t |-> "search", items |-> r.fb.items, page |-> r.page,
                 page_size |-> r.pageSize, total |-> r.fb.total,
                 snapshot_date |-> r.snapshotDate],
                r.rl, "public, max-age=30, s-maxage=30")
    ELSE
        LET ref == r.fb.sel[r.fb.i]
        IN  IF PageCached(r.fb.pages, ref.page) THEN
                LET rows == r.fb.pages[ref.page]
                    has == ref.index + 1 \in 1..Len(rows)
                    mapped == [snapshotItemToSkillListItem(rows[ref.index + 1],
                                  (ref.page - 1) * r.fb.rawPageSize + ref.index + 1)
                               EXCEPT !.id = ref.id]
                IN  FallbackLoop([r EXCEPT !.fb.i = @ + 1,
                                           !.fb.items = IF has THEN Append(@, mapped) ELSE @])
            ELSE loadSnapshotSkillsPage(r, r.snapshotDate, ref.page, <<"search:page">>)

STATS_SUMMARY_KEY(snapshotDate) ==
    Key("data/v1/snapshots/<date>/stats/summary.json", snapshotDate, 0, <<>>)
SNAPSHOT_STATS_SUMMARY_KEY(snapshotDate) ==
    Key("snapshots/<date>/stats_summary.json", snapshotDate, 0, <<>>)

loadSnapshotSummary(r, date, frames) ==
    CallObj(r, SNAPSHOT_STATS_SUMMARY_KEY(date),
            cacheRequest("snapshot-summary", "", date, 0, <<>>), frames)

LEADERBOARD_PAGE_KEY(snapshotDate, sort, page) ==
    Key("data/v1/snapshots/<date>/leaderboard/<sort>/page-<page>.json", snapshotDate, page,
        <<sort>>)
SKILL_DETAIL_KEY(snapshotDate, id) ==
    Key("data/v1/snapshots/<date>/skills/by-id/<owner>/<repo>/<skillId>.json", snapshotDate,
        0, id)
METRICS_KEY(snapshotDate, id) ==
    Key("data/v1/snapshots/<date>/metrics/by-id/<owner>/<repo>/<skillId>.json", snapshotDate,
        0, id)

RECURSIVE split(_)
\* str.split("/")
split(str) ==
    LET at == FirstSlash(str)
    IN  IF at = 0 THEN <<str>>
        ELSE <<SubSeq(str, 1, at - 1)>> \o split(SubSeq(str, at + 1, Len(str)))

RECURSIVE decodeURIComponent(_)
\* percent-decoding of a path given as a sequence of characters and escapes:
\* "%2F" is an escaped "/", "%" a broken escape (the result then holds "<URIError>")
decodeURIComponent(encoded) ==
    IF encoded = <<>> THEN <<>>
    ELSE (IF Head(encoded) = "%2F" THEN <<"/">>
          ELSE IF Head(encoded) = "%" THEN <<"<URIError>">>
          ELSE <<Head(encoded)>>) \o decodeURIComponent(Tail(encoded))

NoSkillPath == [ok |-> FALSE, id |-> <<>>, owner |-> <<>>, repo |-> <<>>, skillId |-> <<>>]

ThreeParts(id) == Len(split(id)) = 3 /\ \A i \in 1..3 : Len(split(id)[i]) > 0

\* parseSkillPath(pathname, prefix), for the part of the path after the prefix
parseSkillPath(encoded) ==
    LET decoded == decodeURIComponent(encoded)
    IN  IF encoded = <<>> THEN NoSkillPath
        ELSE IF \E i \in 1..Len(decoded) : decoded[i] = "<URIError>" THEN NoSkillPath
        ELSE IF ~ThreeParts(decoded) THEN NoSkillPath
        ELSE [ok |-> TRUE, id |-> decoded, owner |-> split(decoded)[1],
              repo |-> split(decoded)[2], skillId |-> split(decoded)[3]]

\* buildSnapshotSkillRecord up to its first await; the result goes to frames
buildSnapshotSkillRecord(r, date, skillId, frames) ==
    IF ~ThreeParts(skillId) THEN Ready(Push(r, frames), NilVal)
    ELSE loadSnapshotSkillLookup([r EXCEPT !.skillId = skillId, !.snapshotDate = date], date,
                                 <<"rec:lookup">> \o frames)

buildSnapshotMetricsResponse(r, date, skillId, frames) ==
    loadSnapshotSkillLookup([r EXCEPT !.skillId = skillId, !.snapshotDate = date], date,
                            <<"met:lookup">> \o frames)

\* a record that takes its id and its canonical_url from the raw row
SkillRecordFromRow(r, pageSize) ==
    LET parts == split(r.skillId)
    IN  [t |-> "skill", id |-> r.raw.source \o <<"/">> \o r.raw.skillId,
         skill_id |-> r.raw.skillId, owner |-> parts[1],
         repo |-> parts[2],
         canonical_url |-> <<"https://skills.sh/">> \o r.raw.source \o <<"/">> \o r.raw.skillId,
         total_installs |-> r.raw.installs, weekly_installs |-> None,
         platform_installs |-> Null, name |-> r.raw.name, description |-> Null,
         github_url |-> <<"https://github.com/">> \o parts[1] \o <<"/">> \o parts[2],
         run_id |-> <<"snapshot-", r.snapshotDate>>,
         fetched_at |-> <<r.snapshotDate, "T00:00:00.000Z">>,
         rank_at_fetch |-> (r.entry.page - 1) * pageSize + r.entry.index + 1,
         http_status |-> 200, parser_version |-> "snapshot-proxy"]

SkillRecord(r, pageSize) ==
    LET parts == split(r.skillId)
    IN  [t |-> "skill", id |-> r.skillId, skill_id |-> r.raw.skillId, owner |-> parts[1],
         repo |-> parts[2],
         canonical_url |-> <<"https://skills.sh/">> \o parts[1] \o <<"/">> \o parts[2]
                              \o <<"/">> \o parts[3],
         total_installs |-> r.raw.installs, weekly_installs |-> None,
         platform_installs |-> Null, name |-> r.raw.name, description |-> Null,
         github_url |-> <<"https://github.com/">> \o parts[1] \o <<"/">> \o parts[2],
         run_id |-> <<"snapshot-", r.snapshotDate>>,
         fetched_at |-> <<r.snapshotDate, "T00:00:00.000Z">>,
         rank_at_fetch |-> (r.entry.page - 1) * pageSize + r.entry.index + 1,
         http_status |-> 200, parser_version |-> "snapshot-proxy"]

MetricsResponse(r) ==
    [t |-> "metrics", id |-> r.skillId,
     items |-> <<[id |-> r.skillId, snapshot_date |-> r.snapshotDate,
                  total_installs |-> r.raw.installs, weekly_installs |-> None,
                  platform_installs |-> Null]>>]

RECURSIVE MapRowsZeroBased(_, _, _)
\* ranks that start at 0
MapRowsZeroBased(rows, base, index) ==
    IF rows = <<>> THEN <<>>
    ELSE <<snapshotItemToSkillListItem(Head(rows), base + index)>>
         \o MapRowsZeroBased(Tail(rows), base, index + 1)

RECURSIVE MapRows(_, _, _)
\* snapshotPage.map((item, index) => snapshotItemToSkillListItem(item, base + index + 1))
MapRows(rows, base, index) ==
    IF rows = <<>> THEN <<>>
    ELSE <<snapshotItemToSkillListItem(Head(rows), base + index + 1)>>
         \o MapRows(Tail(rows), base, index + 1)

\* the first of the values that is not null (a ?? b ?? c ?? d)
Coalesce(vals) ==
    IF \E i \in 1..Len(vals) : vals[i] # None
    THEN vals[CHOOSE i \in 1..Len(vals) : vals[i] # None /\ \A j \in 1..(i - 1) : vals[j] = None]
    ELSE None

Field(doc, total) == IF doc.t = "nil" THEN None ELSE IF total THEN doc.total_skills ELSE doc.page_size

\* a null of the synthesizer answered as an internal error
NotFoundAsError(r, rlh) == Respond(r, 500, "Not found", NoKey, NilVal, rlh, "")

NotFound(r, rlh) == Respond(r, 404, "Not found", NoKey, NilVal, rlh, "")

\* a pass-through response: the text served verbatim
Verbatim(r, text) ==
    Respond(r, 200, "", NoKey, [t |-> "text", text |-> text], NoHeaders,
            "public, max-age=60, s-maxage=60")

\* variant: raw pages stand in for a leaderboard page of every sort
SynthesizedAnySort(sort) == TRUE

\* sort === "installs": the sort whose leaderboard pages the raw pages can stand for
SynthesizedSort(sort) == sort = "installs"

\* the pass-through after the stats branch: leaderboard, skill, metrics
PassRest(r, stage) ==
    LET key == r.inp.key
        lb == key.k = LEADERBOARD_PAGE_KEY(NoDate, "", 0).k
        sk == key.k = SKILL_DETAIL_KEY(NoDate, <<>>).k
        mt == key.k = METRICS_KEY(NoDate, <<>>).k
        id == decodeURIComponent(key.id)
        decodes == \A i \in 1..Len(id) : id[i] # "<URIError>"
    IN  IF stage <= 1 /\ lb /\ key.id # <<>> /\ SynthesizedSort(key.id[1])
        THEN loadSnapshotSkillsPage([r EXCEPT !.page = key.page], key.date, key.page,
                                    <<"pt:lb:page">>)
        ELSE IF stage <= 2 /\ sk /\ decodes
        THEN buildSnapshotSkillRecord(r, key.date, id, <<"pt:rec">>)
        ELSE IF stage <= 3 /\ mt /\ decodes
        THEN buildSnapshotMetricsResponse(r, key.date, id, <<"pt:met">>)
        ELSE NotFound(r, NoHeaders)

\* /v1/skills once the snapshot date is known
ListAfterSnapshot(st) ==
    LET r == st.r
    IN  IF Len(r.query) = 0
        THEN [st EXCEPT !.r = CallObj(r, LEADERBOARD_PAGE_KEY(r.snapshotDate, r.sort, r.page),
                    cacheRequest("leaderboard", r.sort, r.snapshotDate, r.page, <<>>),
                    <<"list:page">>)]
        ELSE loadSearchIndex(st, r.snapshotDate, <<"list:index">>)

\* the snapshot-backed response of /v1/skills
ListSnapshotPayload(r, summary) ==
    LET manifestPageSize == Coalesce(<<Field(r.sm, FALSE), 200>>)
    IN  [t |-> "list", items |-> MapRows(r.rows, (r.page - 1) * manifestPageSize, 0),
         skills |-> r.rows, page |-> r.page, page_size |-> r.pageSize,
         total |-> Coalesce(<<Field(summary, TRUE), Field(r.sm, TRUE),
                              Field(r.latest, TRUE), Len(r.rows)>>),
         snapshot_date |-> r.snapshotDate, sort |-> r.sort]

\* the index-backed response of /v1/skills
ListIndexPayload(r, index) ==
    LET filtered == IF r.query # <<>> THEN SelectSeq2(index.items, r.query) ELSE index.items
        sorted == sortItems(filtered, r.sort)
        start == (r.page - 1) * r.pageSize
        items == slice(sorted, start, start + r.pageSize)
        counts == Field(r.latest, TRUE)
    IN  [t |-> "list", items |-> items, skills |-> <<>>, page |-> r.page,
         page_size |-> r.pageSize,
         total |-> IF r.query = <<>> /\ Len(items) = 0 /\ counts # None /\ counts # 0
                   THEN counts ELSE Len(sorted),
         snapshot_date |-> index.snapshot_date, sort |-> r.sort]

\* the synthesized data/v1/latest.json of the pass-through
SynthLatest(r, snapshotManifest) ==
    [t |-> "synth-latest", format_version |-> 1, snapshot_date |-> r.latest.snapshot_date,
     page_size |-> Coalesce(<<Field(r.latest, FALSE), Field(snapshotManifest, FALSE), 200>>),
     total_skills |-> Coalesce(<<Field(r.summary, TRUE), Field(snapshotManifest, TRUE),
                                 Field(r.latest, TRUE), 0>>)]

\* the synthesized leaderboard page of the pass-through
SynthLeaderboard(r, summary) ==
    LET pageSize == Coalesce(<<Field(r.sm, FALSE), 200>>)
        items == MapRows(r.rows, (r.page - 1) * pageSize, 0)
    IN  [t |-> "synth-leaderboard", snapshot_date |-> r.snapshotDate, sort |-> "installs",
         page |-> r.page, page_size |-> pageSize,
         total |-> Coalesce(<<Field(summary, TRUE), Field(r.sm, TRUE), Len(items)>>),
         items |-> items]

RECURSIVE Resume(_, _)
\* the awaiting caller st.r.pc[1] continues with the awaited value, up to the
\* next suspension point or to the response
Resume(st, val) ==
    LET r == st.r
        top == Head(r.pc)
        st0 == [st EXCEPT !.r.pc = Tail(@)]
        r0 == st0.r
    IN
    CASE top = "obj" ->
            \* loadJsonObjectWithCache: if (!text) return null; return parseJson(text, key)
            IF Falsy(val) THEN Resume(st0, NilVal)
            ELSE IF val.json = "bad" THEN ParseFailure(st0, r.load.key)
            ELSE Resume(st0, val.val)
      [] top = "llm:web" ->
            IF ~Falsy(val) THEN
                IF val.json = "bad" THEN ParseFailure(st0, LATEST_MANIFEST_KEY)
                ELSE IF ~isDateString(val.val.snapshot_date)
                    THEN Throw(st0, "latest.json missing valid snapshot_date", NoKey)
                ELSE Resume([st0 EXCEPT !.clm = [key |-> NoKey, loadedAtMs |-> r.t0,
                                                 doc |-> val.val]], val.val)
            ELSE [st0 EXCEPT !.r = CallText(r0, LATEST_SNAPSHOT_KEY,
                                     cacheRequest("latest-snapshot", "", NoDate, 0, <<>>),
                                     <<"llm:legacy">>)]
      [] top = "llm:legacy" ->
            IF Falsy(val) THEN Resume(NullResolution(st0), NilVal)
            ELSE IF val.json = "bad" THEN ParseFailure(st0, LATEST_SNAPSHOT_KEY)
            ELSE IF ~isDateString(val.val.date)
                THEN Throw(st0, "snapshots/latest.json missing valid date", NoKey)
            ELSE [st0 EXCEPT !.r = loadSnapshotSkillsManifest(
                                     [r0 EXCEPT !.manifest = LatestDoc(val.val.date)],
                                     val.val.date, <<"llm:sm">>)]
      [] top = "llm:sm" ->
            LET manifest == IF val.t = "nil" THEN r.manifest
                            ELSE [r.manifest EXCEPT !.page_size = val.page_size,
                                                    !.total_skills = val.total_skills]
            IN  Resume([st0 EXCEPT !.clm = [key |-> NoKey, loadedAtMs |-> r.t0,
                                            doc |-> manifest],
                                   !.r.manifest = NilVal], manifest)
      [] top = "lsi" ->
            IF Falsy(val) THEN Resume(st0, NilVal)
            ELSE IF val.json = "bad" THEN ParseFailure(st0, r.load.key)
            ELSE IF ~isDateString(val.val.snapshot_date) \/ ~val.val.isArray
                THEN Throw(st0, "Invalid search index payload", NoKey)
            ELSE Resume([st0 EXCEPT !.psc = [key |-> r.load.key, loadedAtMs |-> r.t0,
                                             doc |-> val.val]], val.val)
      [] top = "hz:latest" ->
            HealthzRespond(st0, IF val.t = "nil" THEN NoDate ELSE val.snapshot_date)
      [] top = "search:latest" ->
            IF val.t = "nil"
            THEN [st0 EXCEPT !.r = Respond(r0, 503, "Search index unavailable", NoKey,
                                           NilVal, r.rl, "")]
            ELSE loadSearchIndex([st0 EXCEPT !.r.snapshotDate = val.snapshot_date],
                                 val.snapshot_date, <<"search:index">>)
      [] top = "search:index" ->
            IF val.t # "nil"
            THEN [st0 EXCEPT !.r = Respond(r0, 200, "", NoKey,
                        IndexedPayload(val, r.query, r.sort, r.page, r.pageSize) @@
                            [t |-> "search"],
                        r.rl, "public, max-age=30, s-maxage=30")]
            ELSE [st0 EXCEPT !.r = loadSnapshotSkillLookup(r0, r.snapshotDate,
                                                           <<"search:lookup">>)]
      [] top = "search:lookup" ->
            IF val.t = "nil"
            THEN [st0 EXCEPT !.r = Respond(r0, 503, "Search index unavailable", NoKey,
                                           NilVal, r.rl, "")]
            ELSE LET sortedEntries ==
                        SortEntries(LookupMatches(val, val.order, r.query), r.sort)
                     start == (r.page - 1) * r.pageSize
                 IN  [st0 EXCEPT !.r = loadSnapshotSkillsManifest(
                        [r0 EXCEPT !.fb = [NoFallback EXCEPT
                                             !.sel = slice(sortedEntries, start, start + r.pageSize),
                                             !.total = Len(sortedEntries)]],
                        r.snapshotDate, <<"search:sm">>)]
      [] top = "search:sm" ->
            [st0 EXCEPT !.r = FallbackLoop(
                [r0 EXCEPT !.fb.rawPageSize = IF val.t = "nil" THEN 200 ELSE val.page_size])]
      [] top = "search:page" ->
            LET rows == IF val.t = "nil" THEN <<>> ELSE val.rows
                page == r.fb.sel[r.fb.i].page
            IN  [st0 EXCEPT !.r = FallbackLoop(
                    [r0 EXCEPT !.fb.pages = [n \in DOMAIN r.fb.pages \cup {page} |->
                                               IF n = page THEN rows ELSE r.fb.pages[n]]])]
      [] top = "stats:latest" ->
            IF val.t = "nil"
            THEN [st0 EXCEPT !.r = Respond(r0, 503, "Summary unavailable", NoKey, NilVal,
                                           r.rl, "")]
            ELSE [st0 EXCEPT !.r = CallObj([r0 EXCEPT !.snapshotDate = val.snapshot_date],
                        STATS_SUMMARY_KEY(val.snapshot_date),
                        cacheRequest("summary", "", val.snapshot_date, 0, <<>>),
                        <<"stats:web">>)]
      [] top = "stats:web" ->
            IF val.t # "nil"
            THEN [st0 EXCEPT !.r = Respond(r0, 200, "", NoKey, val, r.rl, "")]
            ELSE [st0 EXCEPT !.r = loadSnapshotSummary(r0, r.snapshotDate, <<"stats:snap">>)]
      [] top = "stats:snap" ->
            IF val.t # "nil"
            THEN [st0 EXCEPT !.r = Respond(r0, 200, "", NoKey, val, r.rl, "")]
            ELSE [st0 EXCEPT !.r = loadSnapshotSkillsManifest(r0, r.snapshotDate,
                                                              <<"stats:sm">>)]
      [] top = "stats:sm" ->
            IF val.t = "nil"
            THEN [st0 EXCEPT !.r = Respond(r0, 503, "Summary unavailable", NoKey, NilVal,
                                           r.rl, "")]
            ELSE [st0 EXCEPT !.r = Respond(r0, 200, "", NoKey,
                        [t |-> "summary", total_skills |-> val.total_skills,
                         total_repos |-> 0, snapshot_date |-> r.snapshotDate], r.rl, "")]
      [] top = "list:latest" ->
            IF val.t = "nil"
            THEN [st0 EXCEPT !.r = Respond(r0, 503, "Leaderboard unavailable", NoKey,
                                           NilVal, r.rl, "")]
            ELSE ListAfterSnapshot([st0 EXCEPT !.r.latest = val,
                                               !.r.snapshotDate = val.snapshot_date])
      [] top = "list:page" ->
            IF val.t # "nil" /\ (val.page_size = None \/ val.page_size = r.pageSize)
            THEN [st0 EXCEPT !.r = Respond(r0, 200, "", NoKey, val, r.rl, "")]
            ELSE IF SynthesizedSort(r.sort)
            THEN [st0 EXCEPT !.r = loadSnapshotSkillsManifest(r0, r.snapshotDate,
                                                              <<"list:sm">>)]
            ELSE loadSearchIndex(st0, r.snapshotDate, <<"list:index">>)
      [] top = "list:sm" ->
            [st0 EXCEPT !.r = loadSnapshotSkillsPage([r0 EXCEPT !.sm = val], r.snapshotDate,
                                                     r.page, <<"list:raw">>)]
      [] top = "list:raw" ->
            IF val.t # "nil" /\ r.pageSize = Coalesce(<<Field(r.sm, FALSE), 200>>)
            THEN [st0 EXCEPT !.r = loadSnapshotSummary([r0 EXCEPT !.rows = val.rows],
                                                       r.snapshotDate, <<"list:summary">>)]
            ELSE loadSearchIndex(st0, r.snapshotDate, <<"list:index">>)
      [] top = "list:summary" ->
            [st0 EXCEPT !.r = Respond(r0, 200, "", NoKey, ListSnapshotPayload(r, val),
                                      r.rl, "")]
      [] top = "list:index" ->
            IF val.t = "nil"
            THEN [st0 EXCEPT !.r = Respond(r0, 503, "Leaderboard unavailable", NoKey,
                                           NilVal, r.rl, "")]
            ELSE \* with an empty query sortItems is handed index.items itself, the
                 \* array of the document parsedSearchCache holds
                 [st0 EXCEPT !.psc = IF r.query = <<>> /\ st0.psc.doc = val
                                     THEN [st0.psc EXCEPT
                                             !.doc.items = ItemsAfterSort(val.items, r.sort)]
                                     ELSE st0.psc,
                             !.r = Respond(r0, 200, "", NoKey, ListIndexPayload(r, val),
                                           r.rl, "public, max-age=30, s-maxage=30")]
      [] top = "rec:lookup" ->
            \* buildSnapshotSkillRecord: entry = lookup?.entries?.[skillId]
            IF val.t = "nil" \/ r.skillId \notin DOMAIN val.entries THEN Resume(st0, NilVal)
            ELSE [st0 EXCEPT !.r = loadSnapshotSkillsPage(
                        [r0 EXCEPT !.entry = val.entries[r.skillId]], r.snapshotDate,
                        val.entries[r.skillId].page, <<"rec:page">>)]
      [] top = "rec:page" ->
            IF val.t = "nil" \/ r.entry.index + 1 \notin 1..Len(val.rows)
            THEN Resume(st0, NilVal)
            ELSE [st0 EXCEPT !.r = loadSnapshotSkillsManifest(
                        [r0 EXCEPT !.raw = val.rows[r.entry.index + 1]], r.snapshotDate,
                        <<"rec:sm">>)]
      [] top = "rec:sm" ->
            Resume(st0, SkillRecord(r, Coalesce(<<Field(val, FALSE), 200>>)))
      [] top = "met:lookup" ->
            IF val.t = "nil" \/ r.skillId \notin DOMAIN val.entries THEN Resume(st0, NilVal)
            ELSE [st0 EXCEPT !.r = loadSnapshotSkillsPage(
                        [r0 EXCEPT !.entry = val.entries[r.skillId]], r.snapshotDate,
                        val.entries[r.skillId].page, <<"met:page">>)]
      [] top = "met:page" ->
            IF val.t = "nil" \/ r.entry.index + 1 \notin 1..Len(val.rows)
            THEN Resume(st0, NilVal)
            ELSE Resume(st0, MetricsResponse([r EXCEPT !.raw = val.rows[r.entry.index + 1]]))
      [] top = "detail:latest" ->
            IF val.t = "nil"
            THEN [st0 EXCEPT !.r = Respond(r0, 503, "Skill unavailable", NoKey, NilVal,
                                           r.rl, "")]
            ELSE [st0 EXCEPT !.r = CallObj([r0 EXCEPT !.snapshotDate = val.snapshot_date],
                        SKILL_DETAIL_KEY(val.snapshot_date, r.skillId),
                        cacheRequest("skill", "", val.snapshot_date, 0, r.skillId),
                        <<"detail:web">>)]
      [] top = "detail:web" ->
            IF val.t # "nil"
            THEN [st0 EXCEPT !.r = Respond(r0, 200, "", NoKey, val, r.rl, "")]
            ELSE [st0 EXCEPT !.r = buildSnapshotSkillRecord(r0, r.snapshotDate, r.skillId,
                                                            <<"detail:rec">>)]
      [] top = "detail:rec" ->
            IF val.t = "nil" THEN [st0 EXCEPT !.r = NotFound(r0, r.rl)]
            ELSE [st0 EXCEPT !.r = Respond(r0, 200, "", NoKey, val, r.rl, "")]
      [] top = "metrics:latest" ->
            IF val.t = "nil"
            THEN [st0 EXCEPT !.r = Respond(r0, 503, "Metrics unavailable", NoKey, NilVal,
                                           r.rl, "")]
            ELSE [st0 EXCEPT !.r = CallObj([r0 EXCEPT !.snapshotDate = val.snapshot_date],
                        METRICS_KEY(val.snapshot_date, r.skillId),
                        cacheRequest("metrics", "", val.snapshot_date, 0, r.skillId),
                        <<"metrics:web">>)]
      [] top = "metrics:web" ->
            IF val.t # "nil"
            THEN [st0 EXCEPT !.r = Respond(r0, 200, "", NoKey, val, r.rl, "")]
            ELSE [st0 EXCEPT !.r = buildSnapshotMetricsResponse(r0, r.snapshotDate,
                                                                r.skillId, <<"metrics:rec">>)]
      [] top = "metrics:rec" ->
            IF val.t = "nil" THEN [st0 EXCEPT !.r = NotFound(r0, r.rl)]
            ELSE [st0 EXCEPT !.r = Respond(r0, 200, "", NoKey, val, r.rl, "")]
      [] top = "pt:static" ->
            \* the artifact pass-through: the stored text is served as it is
            IF ~Falsy(val) THEN [st0 EXCEPT !.r = Verbatim(r0, val)]
            ELSE IF r.inp.key = LATEST_MANIFEST_KEY
            THEN loadLatestManifest(st0, <<"pt:latest">>)
            ELSE IF r.inp.key.k = STATS_SUMMARY_KEY(NoDate).k
            THEN [st0 EXCEPT !.r = loadSnapshotSummary(r0, r.inp.key.date, <<"pt:stats">>)]
            ELSE [st0 EXCEPT !.r = PassRest(r0, 1)]
      [] top = "pt:latest" ->
            IF val.t = "nil" THEN [st0 EXCEPT !.r = PassRest(r0, 1)]
            ELSE [st0 EXCEPT !.r = loadSnapshotSummary([r0 EXCEPT !.latest = val],
                                        val.snapshot_date, <<"pt:latest:summary">>)]
      [] top = "pt:latest:summary" ->
            [st0 EXCEPT !.r = loadSnapshotSkillsManifest([r0 EXCEPT !.summary = val],
                                        r.latest.snapshot_date, <<"pt:latest:sm">>)]
      [] top = "pt:latest:sm" ->
            [st0 EXCEPT !.r = Verbatim(r0, JsonText(SynthLatest(r, val)))]
      [] top = "pt:stats" ->
            IF val.t # "nil" THEN [st0 EXCEPT !.r = Verbatim(r0, JsonText(val))]
            ELSE [st0 EXCEPT !.r = PassRest(r0, 1)]
      [] top = "pt:lb:page" ->
            IF val.t = "nil" THEN [st0 EXCEPT !.r = PassRest(r0, 2)]
            ELSE [st0 EXCEPT !.r = loadSnapshotSkillsManifest(
                        [r0 EXCEPT !.rows = val.rows, !.snapshotDate = r.inp.key.date],
                        r.inp.key.date, <<"pt:lb:sm">>)]
      [] top = "pt:lb:sm" ->
            [st0 EXCEPT !.r = loadSnapshotSummary([r0 EXCEPT !.sm = val], r.snapshotDate,
                                                  <<"pt:lb:summary">>)]
      [] top = "pt:lb:summary" ->
            [st0 EXCEPT !.r = Verbatim(r0, JsonText(SynthLeaderboard(r, val)))]
      [] top = "pt:rec" ->
            IF val.t # "nil" THEN [st0 EXCEPT !.r = Verbatim(r0, JsonText(val))]
            ELSE [st0 EXCEPT !.r = PassRest(r0, 3)]
      [] top = "pt:met" ->
            IF val.t # "nil" THEN [st0 EXCEPT !.r = Verbatim(r0, JsonText(val))]
            ELSE [st0 EXCEPT !.r = NotFound(r0, NoHeaders)]

----------------------------------------------------------------------------
(* The router: fetch up to its first await *)

NoQuery == <<"<absent>">>

Q_MIN_LENGTH == 2
Q_MAX_LENGTH == 100

\* (url.searchParams.get("q") ?? "").trim()
rawQ(q) == Trim(IF q = NoQuery THEN <<>> ELSE q)

\* the query check of /v1/search: the error, "" when the query passes
SearchQueryError(q) ==
    IF Len(rawQ(q)) < Q_MIN_LENGTH THEN "q must be at least 2 characters"
    ELSE IF Len(rawQ(q)) > Q_MAX_LENGTH THEN "q must be <= 100 characters"
    ELSE ""

sortParam(sort) == IF sort = NoParam THEN "installs" ELSE sort

RATE_LIMITED == {"/v1/stats/summary", "/v1/skills", "/v1/skills/", "/v1/metrics/", "/v1/search"}

SearchBegin(st) ==
    LET r == st.r
        inp == r.inp
        page == Max(1, parsePositiveInt(inp.page, 1))
        pageSize == Min(50, Max(1, parsePositiveInt(inp.pageSize, 12)))
        r1 == [r EXCEPT !.query = toLowerCase(rawQ(inp.q)), !.sort = sortParam(inp.sort),
                        !.page = page, !.pageSize = pageSize]
    IN  IF SearchQueryError(inp.q) # ""
        THEN [st EXCEPT !.r = Respond(r, 400, SearchQueryError(inp.q), NoKey, NilVal, r.rl, "")]
        ELSE IF ~isSortMode(sortParam(inp.sort))
        THEN [st EXCEPT !.r = Respond(r, 400, "Invalid sort field", NoKey, NilVal, r.rl, "")]
        ELSE IF inp.snap.kind # "absent" THEN
            IF ~isDateString(inp.snap)
            THEN [st EXCEPT !.r = Respond(r, 400, "Invalid snapshot_date format", NoKey,
                                          NilVal, r.rl, "")]
            ELSE loadSearchIndex([st EXCEPT !.r = [r1 EXCEPT !.snapshotDate = inp.snap]],
                                 inp.snap, <<"search:index">>)
        ELSE loadLatestManifest([st EXCEPT !.r = r1], <<"search:latest">>)

StatsBegin(st) ==
    LET r == st.r
        inp == r.inp
    IN  IF inp.snap.kind # "absent" THEN
            IF ~isDateString(inp.snap)
            THEN [st EXCEPT !.r = Respond(r, 400, "Invalid snapshot_date format", NoKey,
                                          NilVal, r.rl, "")]
            ELSE [st EXCEPT !.r = CallObj([r EXCEPT !.snapshotDate = inp.snap],
                        STATS_SUMMARY_KEY(inp.snap),
                        cacheRequest("summary", "", inp.snap, 0, <<>>), <<"stats:web">>)]
        ELSE loadLatestManifest(st, <<"stats:latest">>)

ListBegin(st) ==
    LET r == st.r
        inp == r.inp
        page == Max(1, parsePositiveInt(inp.page, 1))
        pageSize == Min(200, Max(1, parsePositiveInt(inp.pageSize, 200)))
        r1 == [r EXCEPT !.query = toLowerCase(rawQ(inp.q)), !.sort = sortParam(inp.sort),
                        !.page = page, !.pageSize = pageSize]
    IN  IF ~isSortMode(sortParam(inp.sort))
        THEN [st EXCEPT !.r = Respond(r, 400, "Invalid sort field", NoKey, NilVal, r.rl, "")]
        ELSE IF inp.snap.kind # "absent" THEN
            IF ~isDateString(inp.snap)
            THEN [st EXCEPT !.r = Respond(r, 400, "Invalid snapshot_date format", NoKey,
                                          NilVal, r.rl, "")]
            ELSE ListAfterSnapshot([st EXCEPT !.r = [r1 EXCEPT !.snapshotDate = inp.snap]])
        ELSE loadLatestManifest([st EXCEPT !.r = r1], <<"list:latest">>)

\* /v1/skills/<id> (web is SKILL_DETAIL_KEY) and /v1/metrics/<id> (METRICS_KEY)
ByIdBegin(st, route) ==
    LET r == st.r
        inp == r.inp
        skillPath == parseSkillPath(inp.path)
        r1 == [r EXCEPT !.skillId = skillPath.id]
    IN  IF ~skillPath.ok
        THEN [st EXCEPT !.r = Respond(r, 400, "Invalid skill id", NoKey, NilVal, r.rl, "")]
        ELSE IF inp.snap.kind # "absent" THEN
            IF ~isDateString(inp.snap)
            THEN [st EXCEPT !.r = Respond(r, 400, "Invalid snapshot_date format", NoKey,
                                          NilVal, r.rl, "")]
            ELSE [st EXCEPT !.r = CallObj([r1 EXCEPT !.snapshotDate = inp.snap],
                        IF route = "detail" THEN SKILL_DETAIL_KEY(inp.snap, skillPath.id)
                        ELSE METRICS_KEY(inp.snap, skillPath.id),
                        cacheRequest(IF route = "detail" THEN "skill" ELSE "metrics", "",
                                     inp.snap, 0, skillPath.id),
                        <<route \o ":web">>)]
        ELSE loadLatestManifest([st EXCEPT !.r = r1], <<route \o ":latest">>)

\* fetch(request, env) up to its first suspension point; rlr is what
\* enforceRateLimit answers for this request
Route(st, rlr) ==
    LET r == st.r
        inp == r.inp
        admitted == [st EXCEPT !.r.rl = rlr.headers]
    IN  IF inp.method = "OPTIONS"
        THEN [st EXCEPT !.r = Respond(r, 204, "", NoKey, NilVal, NoHeaders, "")]
        ELSE IF inp.method # "GET"
        THEN [st EXCEPT !.r = Respond(r, 405, "Method not allowed", NoKey, NilVal, NoHeaders, "")]
        ELSE IF inp.route = "/data/v1/"
        \* the artifact pass-through: GET /data/v1/....json, never rate limited
        THEN [st EXCEPT !.r = CallText(r, inp.key,
                    cacheRequest("static", inp.key.k, inp.key.date, inp.key.page, inp.key.id),
                    <<"pt:static">>)]
        ELSE IF inp.route = "/healthz" THEN loadLatestManifest(st, <<"hz:latest">>)
        ELSE IF inp.route \in RATE_LIMITED /\ rlr.blocked
        THEN [st EXCEPT !.r = Respond(r, 429, "Too Many Requests", NoKey,
                    [t |-> "blocked", retry_after_seconds |-> rlr.retryAfter,
                     retryAfter |-> rlr.retryAfter],
                    rlr.headers, "")]
        ELSE IF inp.route = "/v1/stats/summary" THEN StatsBegin(admitted)
        ELSE IF inp.route = "/v1/skills" THEN ListBegin(admitted)
        ELSE IF inp.route = "/v1/skills/"
        THEN ByIdBegin(admitted, "detail")
        ELSE IF inp.route = "/v1/metrics/"
        THEN ByIdBegin(admitted, "metrics")
        ELSE IF inp.route = "/v1/search" THEN SearchBegin(admitted)
        ELSE [st EXCEPT !.r = Respond(r, 404, "Not found", NoKey, NilVal, NoHeaders, "")]

----------------------------------------------------------------------------
(* Specification Spec: requests served one after the other from one store *)

Slots == {"r1"}

Get == [NoInput EXCEPT !.method = "GET"]

Inputs ==
    {[Get EXCEPT !.route = "/v1/search", !.q = q, !.sort = so, !.snap = sn] :
        q \in {NoQuery, <<"a">>, <<"t", "o", "o", "l">>},
        so \in {NoParam, "bad"},
        sn \in {NoDate, SnapDate, BadCalendarDate}}
    \cup {[Get EXCEPT !.route = "/v1/stats/summary", !.snap = sn] :
            sn \in {NoDate, SnapDate, BadCalendarDate}}
    \cup
    {[Get EXCEPT !.route = "/v1/skills", !.sort = so, !.snap = sn, !.pageSize = Num(2)] :
        so \in {NoParam, "bad"}, sn \in {NoDate, BadCalendarDate}}
    \cup
    {[Get EXCEPT !.route = ro, !.path = pa, !.snap = sn] :
        ro \in {"/v1/skills/", "/v1/metrics/"},
        pa \in {IdAlpha, SourceOR},
        sn \in {NoDate, BadCalendarDate}}
    \cup
    {[Get EXCEPT !.route = "/data/v1/", !.key = key] :
        key \in {LATEST_MANIFEST_KEY, STATS_SUMMARY_KEY(SnapDate),
                 LEADERBOARD_PAGE_KEY(SnapDate, "installs", 1),
                 SKILL_DETAIL_KEY(SnapDate, IdAlpha), METRICS_KEY(SnapDate, IdAlpha)}}
    \cup {[Get EXCEPT !.route = "/healthz"], [Get EXCEPT !.route = "/missing"],
          [Get EXCEPT !.route = "/v1/search", !.method = "POST"],
          [Get EXCEPT !.route = "/v1/search", !.method = "OPTIONS"]}

Init ==
    /\ now = StartMs
    /\ rateLimitByClient = EmptyMap
    /\ lastRateLimitSweepMs = 0
    /\ rlLast = NoCall
    /\ probe = NoProbe
    /\ ticks = 0
    /\ envBound \in BOOLEAN
    /\ bucket \in Stores
    /\ ~envBound => bucket = Nominal
    /\ edgeCache = <<>>
    /\ cachedLatestManifest = NoCached
    /\ parsedSearchCache = NoCached
    /\ req = [s \in Slots |-> IdleReq]
    /\ served = 0
    /\ web = NoWeb

St(slot) == [r |-> req[slot], clm |-> cachedLatestManifest, psc |-> parsedSearchCache]

Commit(slot, st) ==
    /\ req' = [req EXCEPT ![slot] = st.r]
    /\ cachedLatestManifest' = st.clm
    /\ parsedSearchCache' = st.psc

\* a request that reaches its handler without the rate limiter counting it
BeginUnchecked(slot, inp) ==
    LET rlr == enforceRateLimit(rateLimitByClient, lastRateLimitSweepMs, now, inp.header)
        st == [St(slot) EXCEPT !.r = [IdleReq EXCEPT !.phase = "run", !.inp = inp]]
    IN  /\ req[slot].phase = "idle"
        /\ served < MaxRequests
        /\ served' = served + 1
        /\ Commit(slot, Route(st, rlr))
        /\ UNCHANGED <<web, now, rateLimitByClient, lastRateLimitSweepMs, rlLast, probe, ticks,
                       envBound, bucket, edgeCache>>

\* a request arrives and runs to its first suspension point
Begin(slot, inp) ==
    LET rlr == enforceRateLimit(rateLimitByClient, lastRateLimitSweepMs, now, inp.header)
        limited == inp.method = "GET" /\ inp.route \in RATE_LIMITED
        st == [St(slot) EXCEPT !.r = [IdleReq EXCEPT !.phase = "run", !.inp = inp]]
    IN  /\ req[slot].phase = "idle"
        /\ served < MaxRequests
        /\ served' = served + 1
        /\ rateLimitByClient' = IF limited THEN rlr.map ELSE rateLimitByClient
        /\ lastRateLimitSweepMs' = IF limited THEN rlr.sweepMs ELSE lastRateLimitSweepMs
        /\ Commit(slot, Route(st, rlr))
        /\ UNCHANGED <<web, now, rlLast, probe, ticks, envBound, bucket, edgeCache>>

\* an awaited async function that returned without I/O resumes its caller
Microtask(slot) ==
    /\ req[slot].phase = "run"
    /\ req[slot].load.stage = "ready"
    /\ Commit(slot, Resume(St(slot), req[slot].ret))
    /\ UNCHANGED <<web, rlVars, envBound, bucket, edgeCache, served>>

\* await cache.match(cacheKey)
EdgeMatch(slot) ==
    LET r == [req[slot] EXCEPT !.io = @ + 1]
        st == [St(slot) EXCEPT !.r = r]
    IN  /\ req[slot].phase = "run"
        /\ req[slot].load.stage = "match"
        /\ IF r.load.url \in DOMAIN edgeCache
           THEN Commit(slot, Resume(st, edgeCache[r.load.url]))
           ELSE Commit(slot, [st EXCEPT !.r.load.stage = "get"])
        /\ UNCHANGED <<web, rlVars, envBound, bucket, edgeCache, served>>

\* a bucket.get that remembers in the edge cache that the object is missing
StoreGetCachingAbsence(slot) ==
    LET text == BucketGet(bucket, req[slot].load.key)
        r == [req[slot] EXCEPT !.io = @ + 1, !.got = @ \cup {req[slot].load.key}]
        st == [St(slot) EXCEPT !.r = r]
    IN  /\ req[slot].phase = "run"
        /\ req[slot].load.stage = "get"
        /\ IF text = NoText
           THEN /\ Commit(slot, Resume(st, NoText))
                /\ edgeCache' = CachePut(edgeCache, r.load.url, NoText)
           ELSE /\ Commit(slot, [st EXCEPT !.r.load.stage = "put", !.r.load.text = text])
                /\ edgeCache' = edgeCache
        /\ UNCHANGED <<web, rlVars, envBound, bucket, served>>

\* await bucket.get(key) and object.text()
StoreGet(slot) ==
    LET text == BucketGet(bucket, req[slot].load.key)
        r == [req[slot] EXCEPT !.io = @ + 1, !.got = @ \cup {req[slot].load.key}]
        st == [St(slot) EXCEPT !.r = r]
    IN  /\ req[slot].phase = "run"
        /\ req[slot].load.stage = "get"
        /\ IF text = NoText
           THEN Commit(slot, Resume(st, NoText))
           ELSE Commit(slot, [st EXCEPT !.r.load.stage = "put", !.r.load.text = text])
        /\ UNCHANGED <<web, rlVars, envBound, bucket, edgeCache, served>>

\* await cache.put(cacheKey, response.clone()); return text
EdgePut(slot) ==
    LET r == [req[slot] EXCEPT !.io = @ + 1]
        st == [St(slot) EXCEPT !.r = r]
    IN  /\ req[slot].phase = "run"
        /\ req[slot].load.stage = "put"
        /\ edgeCache' = CachePut(edgeCache, r.load.url, r.load.text)
        /\ Commit(slot, Resume(st, r.load.text))
        /\ UNCHANGED <<web, rlVars, envBound, bucket, served>>

\* the response leaves the worker
Deliver(slot) ==
    /\ req[slot].phase = "done"
    /\ req' = [req EXCEPT ![slot] = IdleReq]
    /\ UNCHANGED <<web, rlVars, envBound, bucket, edgeCache, cachedLatestManifest,
                   parsedSearchCache, served>>

Next ==
    \/ \E slot \in Slots, inp \in Inputs : Begin(slot, inp)
    \/ \E slot \in Slots : Microtask(slot)
    \/ \E slot \in Slots : EdgeMatch(slot)
    \/ \E slot \in Slots : StoreGet(slot)
    \/ \E slot \in Slots : EdgePut(slot)
    \/ \E slot \in Slots : Deliver(slot)

Spec == Init /\ [][Next]_vars

----------------------------------------------------------------------------
(* Specification SpecFair: the first request of a worker over a snapshot with
   at most one odd object, where the platform completes every awaited
   operation: a request that can resume is eventually resumed *)

\* one request of each kind: search through the manifest and with an explicit
\* snapshot, per-skill detail, pass-through of an object that exists and of one
\* that is synthesized, /healthz, and a method that is not served
CoreInputs ==
    {[Get EXCEPT !.route = "/v1/search", !.q = <<"t", "o", "o", "l">>, !.snap = sn] :
        sn \in {NoDate, SnapDate}}
    \cup {[Get EXCEPT !.route = "/v1/skills/", !.path = IdAlpha]}
    \cup {[Get EXCEPT !.route = "/data/v1/", !.key = key] :
            key \in {LATEST_MANIFEST_KEY, SKILL_DETAIL_KEY(SnapDate, IdAlpha)}}
    \cup {[Get EXCEPT !.route = "/healthz"],
          [Get EXCEPT !.route = "/v1/search", !.method = "POST"]}

InitFair ==
    /\ Init
    /\ \/ bucket = EmptyBucket
       \/ /\ DOMAIN bucket = DOMAIN Nominal
          /\ Cardinality({k \in DOMAIN Nominal : bucket[k] # Nominal[k]}) <= 1

NextFair ==
    \/ \E slot \in Slots, inp \in CoreInputs : served = 0 /\ Begin(slot, inp)
    \/ \E slot \in Slots : Microtask(slot)
    \/ \E slot \in Slots : EdgeMatch(slot)
    \/ \E slot \in Slots : StoreGet(slot)
    \/ \E slot \in Slots : EdgePut(slot)
    \/ \E slot \in Slots : Deliver(slot)

SpecFair ==
    /\ InitFair /\ [][NextFair]_vars
    /\ WF_vars(\E slot \in Slots :
                  Microtask(slot) \/ EdgeMatch(slot) \/ StoreGet(slot) \/ EdgePut(slot))

----------------------------------------------------------------------------
(* Specification SpecQuery: the query check of /v1/search and /v1/skills over
   queries of every length around the two limits, with and without padding *)

Pad(n) == [i \in 1..n |-> " "]
Queries ==
    {NoQuery} \cup
    {Pad(l) \o [i \in 1..n |-> "o"] \o Pad(r) :
        l \in 0..MaxPad, r \in 0..MaxPad,
        n \in {0, Q_MIN_LENGTH - 1, Q_MIN_LENGTH, Q_MAX_LENGTH, Q_MAX_LENGTH + 1}}

QueryInputs ==
    {[Get EXCEPT !.route = ro, !.q = q] : ro \in {"/v1/search", "/v1/skills"}, q \in Queries}

InitQuery == Init /\ envBound /\ bucket = Nominal

NextQuery ==
    \/ \E slot \in Slots, inp \in QueryInputs : Begin(slot, inp)
    \/ \E slot \in Slots : Microtask(slot)
    \/ \E slot \in Slots : EdgeMatch(slot)
    \/ \E slot \in Slots : StoreGet(slot)
    \/ \E slot \in Slots : EdgePut(slot)
    \/ \E slot \in Slots : Deliver(slot)

SpecQuery == InitQuery /\ [][NextQuery]_vars

----------------------------------------------------------------------------
(* Specification SpecConc: two requests in flight at once in one worker, each
   suspended only at its storage and edge-cache awaits, their steps
   interleaved in every order; the client may already have used all but one
   of the requests of its window *)

Slots2 == {"r1", "r2"}

InitConc ==
    /\ now = StartMs
    /\ \/ rateLimitByClient = EmptyMap /\ lastRateLimitSweepMs = 0
       \/ /\ rateLimitByClient =
                [c \in {UNKNOWN_CLIENT} |->
                    [windowStartMs |-> StartMs - 1, count |-> RATE_LIMIT_MAX_REQUESTS - 1]]
          /\ lastRateLimitSweepMs = StartMs - 1
    /\ rlLast = NoCall
    /\ probe = NoProbe
    /\ ticks = 0
    /\ envBound = TRUE
    /\ bucket = Nominal
    /\ edgeCache = <<>>
    /\ cachedLatestManifest = NoCached
    /\ parsedSearchCache = NoCached
    /\ req = [s \in Slots2 |-> IdleReq]
    /\ served = 0
    /\ web = NoWeb

NextConc ==
    \/ \E slot \in Slots2, inp \in CoreInputs : Begin(slot, inp)
    \/ \E slot \in Slots2 : Microtask(slot)
    \/ \E slot \in Slots2 : EdgeMatch(slot)
    \/ \E slot \in Slots2 : StoreGet(slot)
    \/ \E slot \in Slots2 : EdgePut(slot)
    \/ \E slot \in Slots2 : Deliver(slot)

SpecConc == InitConc /\ [][NextConc]_vars

----------------------------------------------------------------------------
(* Specification SpecRace: two requests in flight that resolve the       *)
(* manifest while the clock advances                                     *)

NextRace ==
    \/ \E slot \in Slots2 : Begin(slot, [Get EXCEPT !.route = "/healthz"])
    \/ \E slot \in Slots2 : Microtask(slot)
    \/ \E slot \in Slots2 : EdgeMatch(slot)
    \/ \E slot \in Slots2 : StoreGet(slot)
    \/ \E slot \in Slots2 : EdgePut(slot)
    \/ \E slot \in Slots2 : Deliver(slot)
    \/ \E d \in TickSteps : RLTick(d, FALSE)

SpecRace == InitConc /\ [][NextRace]_vars

----------------------------------------------------------------------------
(* Specification SpecLive: requests served while the clock advances, up to and
   past the life of the in-process caches, and while the pipeline publishes
   the manifests that were missing from the store *)

InitLive ==
    /\ now = StartMs
    /\ rateLimitByClient = EmptyMap
    /\ lastRateLimitSweepMs = 0
    /\ rlLast = NoCall
    /\ probe = NoProbe
    /\ ticks = 0
    /\ envBound \in BOOLEAN
    /\ bucket \in {[k \in DOMAIN Nominal |-> IF k \in gone THEN NoText ELSE Nominal[k]] :
                      gone \in SUBSET {LATEST_MANIFEST_KEY, LATEST_SNAPSHOT_KEY}}
    /\ ~envBound => bucket = Nominal
    /\ edgeCache = <<>>
    /\ cachedLatestManifest = NoCached
    /\ parsedSearchCache = NoCached
    /\ req = [s \in Slots |-> IdleReq]
    /\ served = 0
    /\ web = NoWeb

\* the R2 upload of the pipeline publishes an object that was missing
Publish(key) ==
    /\ envBound
    /\ bucket[key] = NoText
    /\ bucket' = [bucket EXCEPT ![key] = Nominal[key]]
    /\ UNCHANGED <<web, rlVars, envBound, edgeCache, cachedLatestManifest, parsedSearchCache,
                   req, served>>

\* the requests resolve the manifest, load the search index of the snapshot or
\* of a valid date the store holds no snapshot of, or pass the canonical
\* manifest through
NextLive ==
    \/ \E slot \in Slots :
        \E inp \in {[Get EXCEPT !.route = "/v1/search", !.q = <<"t", "o", "o", "l">>,
                                !.snap = sn] : sn \in {NoDate, SnapDate, Ymd(2025, 1, 14)}}
                    \cup {[Get EXCEPT !.route = "/healthz"],
                          [Get EXCEPT !.route = "/data/v1/", !.key = LATEST_MANIFEST_KEY]} :
            Begin(slot, inp)
    \/ \E slot \in Slots : Microtask(slot)
    \/ \E slot \in Slots : EdgeMatch(slot)
    \/ \E slot \in Slots : StoreGet(slot)
    \/ \E slot \in Slots : EdgePut(slot)
    \/ \E slot \in Slots : Deliver(slot)
    \/ \E d \in TickSteps : RLTick(d, FALSE)
    \/ \E key \in DOMAIN Nominal : Publish(key)

SpecLive == InitLive /\ [][NextLive]_vars

----------------------------------------------------------------------------
(* Specification SpecLookup: the first search of a fresh isolate over    *)
(* snapshots without a slim index, whose raw rows stand in every order   *)

\* the three skills in an order of rank
RankOrders ==
    {p \in [1..3 -> {IdAlpha, IdBeta, IdGamma}] : \A i, j \in 1..3 : i # j => p[i] # p[j]}

\* the raw row of a skill
RowOf(id) ==
    Row(SubSeq(id, 5, Len(id)),
        IF id = IdAlpha THEN NameAlpha ELSE IF id = IdBeta THEN NameBeta ELSE NameGamma,
        IF id = IdAlpha THEN 100 ELSE IF id = IdBeta THEN 50 ELSE 7)

\* a snapshot of raw pages of two rows and its lookup document, without slim
\* index; objects of gone are missing
LookupStore(p, gone) ==
    [k \in DOMAIN Nominal |->
        IF k \in gone \/ k = SEARCH_INDEX_KEY(SnapDate) THEN NoText
        ELSE IF k = SNAPSHOT_SKILL_LOOKUP_KEY(SnapDate) THEN
            JsonText([LookupDoc EXCEPT
                        !.entries = [id \in {IdAlpha, IdBeta, IdGamma} |->
                            LET n == CHOOSE i \in 1..3 : p[i] = id
                            IN  [page |-> (n + 1) \div 2, index |-> (n + 1) % 2]]])
        ELSE IF k = SNAPSHOT_SKILLS_PAGE_KEY(SnapDate, 1)
            THEN JsonText(PageDoc(<<RowOf(p[1]), RowOf(p[2])>>))
        ELSE IF k = SNAPSHOT_SKILLS_PAGE_KEY(SnapDate, 2)
            THEN JsonText(PageDoc(<<RowOf(p[3])>>))
        ELSE Nominal[k]]

LookupStores ==
    {LookupStore(p, gone) :
        p \in RankOrders,
        gone \in SUBSET {SNAPSHOT_SKILLS_MANIFEST_KEY(SnapDate),
                         SNAPSHOT_SKILLS_PAGE_KEY(SnapDate, 1),
                         SNAPSHOT_SKILLS_PAGE_KEY(SnapDate, 2)}}

LookupInputs ==
    {[Get EXCEPT !.route = "/v1/search", !.q = q, !.sort = so, !.page = pg, !.pageSize = ps] :
        q \in {<<"o", "/", "r">>, <<"/", "A">>, <<"T", "o", "o", "l">>},
        so \in SORT_MODES,
        pg \in {Num(1), Num(2)},
        ps \in {Num(2), Num(3)}}

InitLookup ==
    /\ now = StartMs
    /\ rateLimitByClient = EmptyMap
    /\ lastRateLimitSweepMs = 0
    /\ rlLast = NoCall
    /\ probe = NoProbe
    /\ ticks = 0
    /\ envBound \in BOOLEAN
    /\ bucket \in LookupStores
    /\ ~envBound => bucket = LookupStore(<<IdAlpha, IdBeta, IdGamma>>, {})
    /\ edgeCache = <<>>
    /\ cachedLatestManifest = NoCached
    /\ parsedSearchCache = NoCached
    /\ req = [s \in Slots |-> IdleReq]
    /\ served = 0
    /\ web = NoWeb

NextLookup ==
    \/ \E slot \in Slots, inp \in LookupInputs : served = 0 /\ Begin(slot, inp)
    \/ \E slot \in Slots : Microtask(slot)
    \/ \E slot \in Slots : EdgeMatch(slot)
    \/ \E slot \in Slots : StoreGet(slot)
    \/ \E slot \in Slots : EdgePut(slot)
    \/ \E slot \in Slots : Deliver(slot)

SpecLookup == InitLookup /\ [][NextLookup]_vars

----------------------------------------------------------------------------
(* Specification SpecBlock: requests of a client that has used up its    *)
(* window, beside the entry of another client that is about to elapse    *)

\* the client without address is at capacity in a window begun 1 ms ago; the
\* busy client opened its window, with a sweep, one window length minus 1 ms ago
InitBlock ==
    /\ now = StartMs
    /\ rateLimitByClient =
          [c \in {UNKNOWN_CLIENT, BusyIp} |->
              IF c = UNKNOWN_CLIENT
              THEN [windowStartMs |-> StartMs - 1, count |-> RATE_LIMIT_MAX_REQUESTS]
              ELSE [windowStartMs |-> StartMs - RATE_LIMIT_WINDOW_MS + 1, count |-> 1]]
    /\ lastRateLimitSweepMs = StartMs - RATE_LIMIT_WINDOW_MS + 1
    /\ rlLast = NoCall
    /\ probe = NoProbe
    /\ ticks = 0
    /\ envBound = TRUE
    /\ bucket = Nominal
    /\ edgeCache = <<>>
    /\ cachedLatestManifest = NoCached
    /\ parsedSearchCache = NoCached
    /\ req = [s \in Slots |-> IdleReq]
    /\ served = 0
    /\ web = NoWeb

NextBlock ==
    \/ \E slot \in Slots, inp \in CoreInputs : Begin(slot, inp)
    \/ \E slot \in Slots : Microtask(slot)
    \/ \E slot \in Slots : EdgeMatch(slot)
    \/ \E slot \in Slots : StoreGet(slot)
    \/ \E slot \in Slots : EdgePut(slot)
    \/ \E slot \in Slots : Deliver(slot)
    \/ \E d \in TickSteps : RLTick(d, FALSE)

SpecBlock == InitBlock /\ [][NextBlock]_vars

----------------------------------------------------------------------------
(* Specification SpecWeb: the request cache of the web API client
   (src/unnamed/part_001, the module that src/web/src/lib/api.test.ts tests).
   A promise is a record of web.promises, named by its position: kind "fetch" is fetchJson(url), settled by the network;
   "cached" is the promise fetchCachedJson stores, "manifest" and "slim" the
   promises getLatestManifest and getSlimSearchIndex store, each a .catch()
   of the promise `of`; "await" is getSlimSearchIndex waiting for the
   manifest.  A reaction runs as a step of its own once `of` is settled. *)

WebUrls == {"latest", "slim", "detail"}

Promise(kind, url, of) == [kind |-> kind, url |-> url, of |-> of, state |-> "pending"]

\* jsonRequestCache.delete(key) that deletes nothing
EvictNothing(cache, url) == cache

\* jsonRequestCache.delete(key)
Evict(cache, url) == [u \in DOMAIN cache \ {url} |-> cache[u]]

\* fetchCachedJson(url): the web client after the call and the promise returned
fetchCachedJson(w, url) ==
    IF url \in DOMAIN w.jsonRequestCache
    THEN [w |-> w, id |-> w.jsonRequestCache[url]]
    ELSE LET n == Len(w.promises)
         IN  [w |-> [w EXCEPT !.promises = @ \o <<Promise("fetch", url, 0),
                                                  Promise("cached", url, n + 1)>>,
                              !.jsonRequestCache =
                                  [u \in DOMAIN @ \cup {url} |->
                                      IF u = url THEN n + 2 ELSE @[u]]],
              id |-> n + 2]

getLatestManifest(w) ==
    IF w.manifestPromise # 0 THEN [w |-> w, id |-> w.manifestPromise]
    ELSE LET f == fetchCachedJson(w, "latest")
             n == Len(f.w.promises)
         IN  [w |-> [f.w EXCEPT !.promises = @ \o <<Promise("manifest", "latest", f.id)>>,
                                !.manifestPromise = n + 1],
              id |-> n + 1]

\* the page calls getLatestManifest(), getSlimSearchIndex() (up to its await
\* of the manifest) or, through getSkill(id), fetchCachedJson(url)
WebCall(res) ==
    /\ web.calls < MaxWebCalls
    /\ web' = [(CASE res = "latest" -> getLatestManifest(web).w
                  [] res = "slim" ->
                        IF web.slimSearchIndexPromise # 0 THEN web
                        ELSE LET m == getLatestManifest(web)
                             IN  [m.w EXCEPT !.promises =
                                        @ \o <<Promise("await", "slim", m.id)>>]
                  [] OTHER -> fetchCachedJson(web, res).w)
               EXCEPT !.calls = @ + 1]
    /\ UNCHANGED <<rlVars, dataVars>>

\* fetchJson(url) settles: the response is OK and parses, or the network
\* failed or the status is not OK
WebSettle(k, ok) ==
    /\ web.promises[k].kind = "fetch" /\ web.promises[k].state = "pending"
    /\ web' = [web EXCEPT !.promises[k].state = IF ok THEN "ok" ELSE "rejected"]
    /\ UNCHANGED <<rlVars, dataVars>>

\* the reaction of promise k to the promise it was made of
WebReact(k) ==
    LET p == web.promises[k]
        ok == web.promises[p.of].state = "ok"
        w == [web EXCEPT !.promises[k].state = IF ok THEN "ok" ELSE "rejected"]
    IN  /\ p.kind # "fetch" /\ p.state = "pending"
        /\ web.promises[p.of].state # "pending"
        /\ web' =
            IF p.kind = "await" THEN
                IF ~ok THEN w
                ELSE LET f == fetchCachedJson(w, "slim")
                         n == Len(f.w.promises)
                     IN  [f.w EXCEPT !.promises = @ \o <<Promise("slim", "slim", f.id)>>,
                                     !.slimSearchIndexPromise = n + 1]
            ELSE IF ok THEN w
            ELSE IF p.kind = "cached"
                 THEN [w EXCEPT !.jsonRequestCache = Evict(@, p.url)]
            ELSE IF p.kind = "manifest" THEN [w EXCEPT !.manifestPromise = 0]
            ELSE [w EXCEPT !.slimSearchIndexPromise = 0]
        /\ UNCHANGED <<rlVars, dataVars>>

NextWeb ==
    \/ \E res \in WebUrls : WebCall(res)
    \/ \E k \in 1..Len(web.promises), ok \in BOOLEAN : WebSettle(k, ok)
    \/ \E k \in 1..Len(web.promises) : WebReact(k)

SpecWeb == InitQuery /\ [][NextWeb]_vars

----------------------------------------------------------------------------
(* Specification SpecCold: the first request of a worker, over the pages and
   page sizes of search and listing, every synthesis path, and snapshots whose
   slim index holds ties and missing numbers or whose objects are missing *)

\* a skill the raw pages and the lookup document do not hold
IdAlt == <<"o", "/", "r", "/", "a", "l", "t">>

\* slim indexes: every order of four items, two of which tie on each sort key
\* and two of which lack a number
IndexDocs ==
    LET pool == {IndexItem(IdAlpha, SubSeq(IdAlpha, 5, 9), NameAlpha, 100, 10, 1),
                 IndexItem(IdBeta, SubSeq(IdBeta, 5, 8), NameBeta, 50, 20, 2),
                 IndexItem(IdGamma, SubSeq(IdGamma, 5, 9), NameGamma, None, 20, 3),
                 IndexItem(IdAlt, SubSeq(IdAlt, 5, 7), NameAlpha, 100, None, 4)}
    IN  {[SlimIndexDoc(SnapDate, TRUE) EXCEPT !.items = items] :
            items \in {s \in [1..4 -> pool] : \A i, j \in 1..4 : i # j => s[i] # s[j]}}

\* the snapshot under every slim index, the snapshot with objects missing, and
\* with a first raw page that is missing or lost its first row (the lookup
\* entry of o/r/alpha then points at the row of beta, that of o/r/beta at no row)
ColdStores ==
    {[Nominal EXCEPT ![SEARCH_INDEX_KEY(SnapDate)] = JsonText(doc)] : doc \in IndexDocs}
    \cup
    {[k \in DOMAIN Nominal |->
        IF k \in gone THEN NoText
        ELSE IF k = SNAPSHOT_SKILLS_PAGE_KEY(SnapDate, 1) THEN first
        ELSE Nominal[k]] :
        gone \in SUBSET {SEARCH_INDEX_KEY(SnapDate), SNAPSHOT_SKILL_LOOKUP_KEY(SnapDate),
                         SNAPSHOT_SKILLS_MANIFEST_KEY(SnapDate),
                         SNAPSHOT_SKILLS_PAGE_KEY(SnapDate, 2)},
        first \in {Nominal[SNAPSHOT_SKILLS_PAGE_KEY(SnapDate, 1)], NoText,
                   JsonText(PageDoc(<<Row(SubSeq(IdBeta, 5, 8), NameBeta, 50)>>))}}
    \cup
    \* makeBucket({"data/v1/latest.json": latestManifest}) of index.test.ts
    {[k \in {LATEST_MANIFEST_KEY} |-> JsonText(LatestDoc(SnapDate))]}

ColdInputs ==
    {[Get EXCEPT !.route = "/v1/search", !.q = q, !.sort = so, !.page = pg, !.pageSize = ps] :
        q \in {<<"T", "o", "o", "l">>, <<"o", "/", "r">>},
        so \in SORT_MODES,
        pg \in {AbsentNum, Num(1), Num(2), Num(3)},
        ps \in {Num(2), Num(3)}}
    \cup
    {[Get EXCEPT !.route = "/v1/skills", !.page = pg, !.pageSize = ps] :
        pg \in {Num(1), Num(2)}, ps \in {Num(2), Num(200)}}
    \cup
    {[Get EXCEPT !.route = ro, !.path = pa] :
        ro \in {"/v1/skills/", "/v1/metrics/"}, pa \in {IdAlpha, IdBeta, IdGamma, IdAlt}}
    \cup
    {[Get EXCEPT !.route = "/data/v1/", !.key = key] :
        key \in {LEADERBOARD_PAGE_KEY(SnapDate, "installs", 1),
                 LEADERBOARD_PAGE_KEY(SnapDate, "installs", 2)}
                \cup {SKILL_DETAIL_KEY(SnapDate, id) : id \in {IdAlpha, IdBeta, IdGamma, IdAlt}}
                \cup {METRICS_KEY(SnapDate, id) : id \in {IdAlpha, IdBeta, IdAlt}}}
    \cup
    {[Get EXCEPT !.method = me, !.route = ro, !.q = <<"T", "o", "o", "l">>,
                 !.path = IdAlpha, !.key = LATEST_MANIFEST_KEY] :
        me \in {"POST", "HEAD", "OPTIONS"},
        ro \in {"/v1/search", "/v1/skills/", "/data/v1/", "/healthz", "/missing"}}

InitCold ==
    /\ now = StartMs
    /\ rateLimitByClient = EmptyMap
    /\ lastRateLimitSweepMs = 0
    /\ rlLast = NoCall
    /\ probe = NoProbe
    /\ ticks = 0
    /\ envBound \in BOOLEAN
    /\ bucket \in ColdStores
    /\ ~envBound => bucket = Nominal
    /\ edgeCache = <<>>
    /\ cachedLatestManifest = NoCached
    /\ parsedSearchCache = NoCached
    /\ req = [s \in Slots |-> IdleReq]
    /\ served = 0
    /\ web = NoWeb

NextCold ==
    \/ \E slot \in Slots, inp \in ColdInputs : served = 0 /\ Begin(slot, inp)
    \/ \E slot \in Slots : Microtask(slot)
    \/ \E slot \in Slots : EdgeMatch(slot)
    \/ \E slot \in Slots : StoreGet(slot)
    \/ \E slot \in Slots : EdgePut(slot)
    \/ \E slot \in Slots : Deliver(slot)

SpecCold == InitCold /\ [][NextCold]_vars

----------------------------------------------------------------------------
(* Specification SpecBoard: the first request of a fresh isolate for a   *)
(* leaderboard page, pre-rendered or listed, in each sort mode           *)

BoardInputs ==
    {[Get EXCEPT !.route = "/data/v1/", !.key = LEADERBOARD_PAGE_KEY(SnapDate, so, pg)] :
        so \in SORT_MODES, pg \in 1..2}
    \cup
    {[Get EXCEPT !.route = "/v1/skills", !.sort = so, !.pageSize = ps] :
        so \in SORT_MODES \cup {NoParam}, ps \in {Num(2), Num(200)}}

NextBoard ==
    \/ \E slot \in Slots, inp \in BoardInputs : served = 0 /\ Begin(slot, inp)
    \/ \E slot \in Slots : Microtask(slot)
    \/ \E slot \in Slots : EdgeMatch(slot)
    \/ \E slot \in Slots : StoreGet(slot)
    \/ \E slot \in Slots : EdgePut(slot)
    \/ \E slot \in Slots : Deliver(slot)

SpecBoard == InitCold /\ [][NextBoard]_vars

----------------------------------------------------------------------------
(* Claims about the rate limiter *)

\* C1 (as stated): in every interval of 60,000 ms, whatever instant it begins
\* at, at most 60 requests of one client are admitted.
C1_RollingAtMost60 == probe.count <= RATE_LIMIT_MAX_REQUESTS

\* C1 (amended): in an interval of 60,000 ms that begins at the instant a
\* client's window opens, at most 60 of its requests are admitted and a request
\* is refused only after 60 were admitted, with status 429 and Retry-After >= 1;
\* an interval that begins at another instant admits at most 120.
C1_WindowAtMost60 ==
    /\ probe.aligned =>
          /\ probe.count <= RATE_LIMIT_MAX_REQUESTS
          /\ probe.refused => probe.count = RATE_LIMIT_MAX_REQUESTS
    /\ probe.count <= 2 * RATE_LIMIT_MAX_REQUESTS
    /\ rlLast.blocked => rlLast.status = 429 /\ rlLast.retryAfter >= 1

C1_Witness ==
    /\ probe.aligned /\ probe.count = RATE_LIMIT_MAX_REQUESTS /\ probe.refused
    /\ rlLast.blocked

\* C2: of 61 requests one client sends inside the 60 s that follow its first
\* request, the first 60 are admitted and the 61st is answered 429 "Too Many
\* Requests" with Retry-After, X-RateLimit-Limit 60 and X-RateLimit-Remaining 0.
C2_SixtyFirstBlocked ==
    rlLast.clientId = BusyIp =>
        /\ rlLast.sent <= RATE_LIMIT_MAX_REQUESTS => ~rlLast.blocked
        /\ rlLast.sent = RATE_LIMIT_MAX_REQUESTS + 1 =>
              /\ rlLast.blocked
              /\ rlLast.status = 429
              /\ rlLast.error = "Too Many Requests"
              /\ rlLast.retryAfter # None
              /\ rlLast.headers.limit = 60
              /\ rlLast.headers.remaining = 0

C2_Witness ==
    /\ rlLast.clientId = BusyIp
    /\ rlLast.sent = RATE_LIMIT_MAX_REQUESTS + 1
    /\ rlLast.blocked

\* C3: every entry of the rate-limit map has 1 <= count <= 60.
C3_CountInRange ==
    \A c \in DOMAIN rateLimitByClient :
        rateLimitByClient[c].count \in 1..RATE_LIMIT_MAX_REQUESTS

C3_Witness ==
    /\ Cardinality(DOMAIN rateLimitByClient) = 2
    /\ \E c \in DOMAIN rateLimitByClient :
          rateLimitByClient[c].count = RATE_LIMIT_MAX_REQUESTS

\* C4: the Retry-After of a blocked request is
\* max(1, ceil((window_start + 60000 - now) / 1000)) and lies in 1..60.
C4_RetryAfterRange ==
    rlLast.blocked =>
        LET left == rlLast.before.windowStartMs + 60000 - rlLast.at
            secs == IF left % 1000 = 0 THEN left \div 1000 ELSE left \div 1000 + 1
        IN  /\ rlLast.retryAfter = (IF secs >= 1 THEN secs ELSE 1)
            /\ rlLast.retryAfter \in 1..60

C4_Witness ==
    /\ rlLast.blocked
    /\ rlLast.retryAfter = 1
    /\ rlLast.at > rlLast.before.windowStartMs

----------------------------------------------------------------------------
(* Claims about the router *)

Done(slot) == req[slot].phase = "done"

\* C5 (as stated): when loadLatestManifest returns null because neither
\* data/v1/latest.json nor snapshots/latest.json exists, the endpoint that
\* asked for the latest snapshot answers 503 (/healthz, which only reports the
\* date, set aside).
C5_NullManifestIs503 ==
    \A slot \in Slots :
        /\ Done(slot) /\ req[slot].nullLatest /\ req[slot].inp.route # "/healthz"
        /\ envBound
        /\ BucketGet(bucket, LATEST_MANIFEST_KEY) = NoText
        /\ BucketGet(bucket, LATEST_SNAPSHOT_KEY) = NoText
        => req[slot].resp.status = 503

\* number of characters of a query that are not spaces: the length of the
\* trimmed query when the spaces are at its two ends only
NonSpace(q) == IF q = NoQuery THEN 0 ELSE Cardinality({i \in 1..Len(q) : q[i] # " "})

InvalidSort(inp) ==
    /\ inp.route \in {"/v1/search", "/v1/skills"}
    /\ inp.sort \notin {NoParam, "installs", "weekly", "name"}

InvalidDate(inp) ==
    /\ inp.route \in {"/v1/search", "/v1/skills", "/v1/skills/", "/v1/metrics/",
                      "/v1/stats/summary"}
    /\ inp.snap = BadCalendarDate

InvalidLength(inp) == inp.route = "/v1/search" /\ NonSpace(inp.q) \notin 2..100

\* C6: a GET request with an invalid sort, an invalid snapshot_date or a query
\* of a length out of range is answered 400 (unless it was rate limited), and a
\* request answered 400 has read nothing from the bucket and has neither read
\* nor written the edge cache.
C6_ValidationBeforeStorage ==
    \A slot \in Slots :
        Done(slot) /\ req[slot].inp.method = "GET" =>
            /\ req[slot].resp.status = 400 => req[slot].io = 0 /\ req[slot].got = {}
            /\ (\/ InvalidSort(req[slot].inp)
                \/ InvalidDate(req[slot].inp)
                \/ InvalidLength(req[slot].inp)) /\ req[slot].resp.status # 429
                    => req[slot].resp.status = 400

C6_Witness ==
    \E slot \in Slots :
        /\ Done(slot) /\ envBound /\ served = MaxRequests /\ edgeCache # <<>>
        /\ req[slot].inp.route = "/v1/search"
        /\ InvalidSort(req[slot].inp) /\ ~InvalidLength(req[slot].inp)
        /\ req[slot].resp.status = 400 /\ req[slot].io = 0

\* C7: /v1/search answers 400 "q must be at least 2 characters" when the
\* trimmed q (absent q included) is shorter than 2, 400 "q must be <= 100
\* characters" when it is longer than 100, and accepts it otherwise; /v1/skills
\* accepts a q of any length.
C7_QueryLengthGate ==
    \A slot \in Slots :
        LET r == req[slot]
            n == NonSpace(r.inp.q)
        IN  Done(slot) =>
                /\ r.inp.route = "/v1/search" =>
                      /\ n < 2 => /\ r.resp.status = 400
                                  /\ r.resp.error.msg = "q must be at least 2 characters"
                      /\ n > 100 => /\ r.resp.status = 400
                                    /\ r.resp.error.msg = "q must be <= 100 characters"
                      /\ n \in 2..100 => r.resp.status = 200
                /\ r.inp.route = "/v1/skills" => r.resp.status = 200

C7_Witness ==
    \E slot \in Slots :
        /\ Done(slot) /\ req[slot].inp.route = "/v1/search"
        /\ req[slot].inp.q # NoQuery
        /\ Len(req[slot].inp.q) > Q_MAX_LENGTH
        /\ NonSpace(req[slot].inp.q) = Q_MAX_LENGTH
        /\ req[slot].resp.status = 200

\* C8 (as stated): a request during which the text of an object failed JSON
\* parsing is answered 500 with a message that names the key of that object.
C8_ParseFailureIs500 ==
    \A slot \in Slots :
        Done(slot) /\ req[slot].badKey # NoKey =>
            /\ req[slot].resp.status = 500
            /\ req[slot].resp.error = [msg |-> "Invalid JSON in", key |-> req[slot].badKey]

\* C8 (amended): a request during which the text of an object failed JSON
\* parsing is answered 500 with a message that names the key of that object,
\* except on /healthz, which answers 200.
C8_ParseFailureIs500ExceptHealthz ==
    \A slot \in Slots :
        Done(slot) /\ req[slot].badKey # NoKey =>
            IF req[slot].inp.route = "/healthz" THEN req[slot].resp.status = 200
            ELSE /\ req[slot].resp.status = 500
                 /\ req[slot].resp.error =
                        [msg |-> "Invalid JSON in", key |-> req[slot].badKey]

C8_Witness ==
    \E slot \in Slots :
        /\ Done(slot) /\ req[slot].inp.route = "/v1/search"
        /\ req[slot].badKey = SEARCH_INDEX_KEY(SnapDate)
        /\ req[slot].resp.status = 500

\* C9 (as stated): the text of an object that fails JSON parsing is never
\* cached: the edge cache holds no such text, and the manifest and the search
\* index kept in memory were decoded from texts that parse.
C9_MalformedNeverCached ==
    /\ \A url \in DOMAIN edgeCache : edgeCache[url].json # "bad"
    /\ parsedSearchCache.doc # NilVal =>
          BucketGet(bucket, parsedSearchCache.key).json = "ok"
    /\ cachedLatestManifest.doc # NilVal =>
          \/ BucketGet(bucket, LATEST_MANIFEST_KEY).json = "ok"
          \/ BucketGet(bucket, LATEST_SNAPSHOT_KEY).json = "ok"

\* C10 (as stated): a /v1/search request reads the lookup document only when
\* the slim index object of the snapshot is missing from the bucket.
C10_LookupOnlyWhenIndexMissing ==
    \A slot \in Slots :
        /\ Done(slot) /\ req[slot].inp.route = "/v1/search"
        /\ SNAPSHOT_SKILL_LOOKUP_KEY(SnapDate) \in req[slot].got
        => BucketGet(bucket, SEARCH_INDEX_KEY(SnapDate)) = NoText

----------------------------------------------------------------------------
(* Claims about search and synthesis *)

\* the request of the slot was a GET of /v1/search that passed validation
ValidSearch(slot) ==
    /\ Done(slot)
    /\ req[slot].inp.method = "GET" /\ req[slot].inp.route = "/v1/search"
    /\ ~InvalidLength(req[slot].inp) /\ ~InvalidSort(req[slot].inp)
    /\ ~InvalidDate(req[slot].inp)
    /\ req[slot].resp.status # 429

\* the object of the store under the key is well-formed JSON
Present(key) == BucketGet(bucket, key).json = "ok"
Missing(key) == BucketGet(bucket, key) = NoText

\* C11: a /v1/search request with a valid query, answered from a store that
\* holds the latest manifest but neither the slim index nor the lookup document
\* of the resolved snapshot, is answered 503 "Search index unavailable", not
\* 404 and not 200.
C11_NoIndexNoLookupIs503 ==
    \A slot \in Slots :
        (/\ ValidSearch(slot) /\ envBound
         /\ BucketGet(bucket, LATEST_MANIFEST_KEY) = JsonText(LatestDoc(SnapDate))
         /\ Missing(SEARCH_INDEX_KEY(SnapDate))
         /\ Missing(SNAPSHOT_SKILL_LOOKUP_KEY(SnapDate)))
        => /\ req[slot].resp.status = 503
           /\ req[slot].resp.error.msg = "Search index unavailable"

\* the store of the test: only data/v1/latest.json
C11_Witness ==
    \E slot \in Slots :
        /\ ValidSearch(slot)
        /\ DOMAIN bucket = {LATEST_MANIFEST_KEY}
        /\ {SEARCH_INDEX_KEY(SnapDate), SNAPSHOT_SKILL_LOOKUP_KEY(SnapDate)} \subseteq req[slot].got
        /\ req[slot].resp.status = 503


\* the rows of a raw page of the store, none when the page is missing
RowsOf(page) ==
    IF Present(SNAPSHOT_SKILLS_PAGE_KEY(SnapDate, page))
    THEN BucketGet(bucket, SNAPSHOT_SKILLS_PAGE_KEY(SnapDate, page)).val.rows
    ELSE <<>>

\* C12: with the manifest present, the slim index missing and the lookup
\* document present, a valid /v1/search is answered 200 from the lookup
\* document: every item has weekly_installs, description and
\* platform_installs null, its id is a key of the lookup document that contains
\* the query, and its content is the row that key points at.
C12_LookupPathItems ==
    \A slot \in Slots :
        (/\ ValidSearch(slot) /\ envBound
         /\ BucketGet(bucket, LATEST_MANIFEST_KEY) = JsonText(LatestDoc(SnapDate))
         /\ Missing(SEARCH_INDEX_KEY(SnapDate))
         /\ Present(SNAPSHOT_SKILL_LOOKUP_KEY(SnapDate)))
        => LET resp == req[slot].resp
               query == toLowerCase(Trim(req[slot].inp.q))
           IN  /\ resp.status = 200
               /\ resp.body.t = "search"
               /\ SNAPSHOT_SKILL_LOOKUP_KEY(SnapDate) \in req[slot].got
               /\ \A i \in 1..Len(resp.body.items) :
                    LET item == resp.body.items[i]
                    IN  /\ item.weekly_installs = None
                        /\ item.description = Null
                        /\ item.platform_installs = Null
                        /\ item.id \in DOMAIN LookupDoc.entries
                        /\ includes(toLowerCase(item.id), query)
                        /\ LET ref == LookupDoc.entries[item.id]
                           IN  /\ ref.index + 1 \in 1..Len(RowsOf(ref.page))
                               /\ item.skill_id = RowsOf(ref.page)[ref.index + 1].skillId
                               /\ item.name = RowsOf(ref.page)[ref.index + 1].name

\* an item whose row names another skill carries the id of its lookup key
C12_Witness ==
    \E slot \in Slots :
        /\ ValidSearch(slot)
        /\ Missing(SEARCH_INDEX_KEY(SnapDate))
        /\ req[slot].resp.status = 200
        /\ Len(req[slot].resp.body.items) = 2
        /\ \E i \in 1..Len(req[slot].resp.body.items) :
              /\ req[slot].resp.body.items[i].id = IdAlpha
              /\ req[slot].resp.body.items[i].skill_id = SubSeq(IdBeta, 5, 8)


\* the items of the slim index of the store
IndexItems == BucketGet(bucket, SEARCH_INDEX_KEY(SnapDate)).val.items

\* the positions of the index items whose lower-cased name or id contains the
\* lower-cased query
Hits(q) ==
    {i \in 1..Len(IndexItems) :
        \/ includes(toLowerCase(IndexItems[i].name), toLowerCase(Trim(q)))
        \/ includes(toLowerCase(IndexItems[i].id), toLowerCase(Trim(q)))}

\* item a may stand before item b under the sort mode
InOrder(a, b, sort) ==
    CASE sort = "name" -> ~LocaleLess(b.name, a.name)
      [] sort = "weekly" ->
            (IF a.weekly_installs = None THEN 0 ELSE a.weekly_installs)
                >= (IF b.weekly_installs = None THEN 0 ELSE b.weekly_installs)
      [] OTHER ->
            (IF a.total_installs = None THEN 0 ELSE a.total_installs)
                >= (IF b.total_installs = None THEN 0 ELSE b.total_installs)

\* the requested page and page size as numbers
PageOf(inp) == IF inp.page.kind = "absent" THEN 1 ELSE inp.page.n
SizeOf(inp) == inp.pageSize.n

\* C13: on the indexed path of /v1/search, total is the number of index items
\* whose lower-cased name or id contains the lower-cased query, and items is
\* the slice [(page-1)*page_size, (page-1)*page_size + page_size) of those
\* items in an order sorted by the requested mode: descending total_installs,
\* descending weekly_installs or ascending name, a missing number counting 0.
C13_IndexedSearch ==
    \A slot \in Slots :
        (/\ ValidSearch(slot) /\ envBound
         /\ BucketGet(bucket, LATEST_MANIFEST_KEY) = JsonText(LatestDoc(SnapDate))
         /\ Present(SEARCH_INDEX_KEY(SnapDate)))
        => LET inp == req[slot].inp
               body == req[slot].resp.body
               hits == Hits(inp.q)
               total == Cardinality(hits)
               start == (PageOf(inp) - 1) * SizeOf(inp)
               n == Max(0, Min(SizeOf(inp), total - start))
           IN  /\ req[slot].resp.status = 200
               /\ body.total = total
               /\ body.page = PageOf(inp) /\ body.page_size = SizeOf(inp)
               /\ \E order \in [1..total -> hits] :
                    /\ \A i, j \in 1..total : i # j => order[i] # order[j]
                    /\ \A i \in 1..(total - 1) :
                          InOrder(IndexItems[order[i]], IndexItems[order[i + 1]], inp.sort)
                    /\ body.items = [k \in 1..n |-> IndexItems[order[start + k]]]

\* the second page by weekly installs ends with the item without a number
C13_Witness ==
    \E slot \in Slots :
        /\ ValidSearch(slot)
        /\ Present(SEARCH_INDEX_KEY(SnapDate))
        /\ req[slot].inp.sort = "weekly" /\ req[slot].inp.page = Num(2)
        /\ req[slot].resp.status = 200
        /\ req[slot].resp.body.total = 4
        /\ Len(req[slot].resp.body.items) = 2
        /\ req[slot].resp.body.items[2].weekly_installs = None


\* C14 (as stated): the pages 1..ceil(total/page_size) of a search concatenate
\* to the full filtered and sorted sequence of total items, without gap or
\* repetition, and later pages are empty, on the indexed path and on the lookup
\* path: so the page that starts at (page-1)*page_size holds exactly
\* min(page_size, total - start) items (none beyond the last page), no two of
\* them with the same id.
C14_PagesPartitionResults ==
    \A slot \in Slots :
        ValidSearch(slot) /\ req[slot].resp.status = 200
        => LET inp == req[slot].inp
               body == req[slot].resp.body
               start == (PageOf(inp) - 1) * SizeOf(inp)
           IN  /\ Len(body.items) = Max(0, Min(SizeOf(inp), body.total - start))
               /\ \A i, j \in 1..Len(body.items) :
                    i # j => body.items[i].id # body.items[j].id

\* the same, for the stores in which every lookup entry points at a row
C14_WithEveryRow ==
    (/\ Present(SNAPSHOT_SKILLS_PAGE_KEY(SnapDate, 1))
     /\ Present(SNAPSHOT_SKILLS_PAGE_KEY(SnapDate, 2))
     /\ Len(RowsOf(1)) = 2)
    => C14_PagesPartitionResults


\* C15: sortItems is idempotent: for every sort mode and every list of index
\* items (the items of the slim index of the store in their order, and every
\* selection of them, once a search has sorted them), sorting the sorted list
\* again leaves it as it is, element for element, also when items tie on the
\* key or lack the number.
C15_SortIdempotent ==
    (Present(SEARCH_INDEX_KEY(SnapDate)) /\ \E slot \in Slots : ValidSearch(slot)) =>
        \A sort \in SORT_MODES :
            \A chosen \in SUBSET {IndexItems[i] : i \in 1..Len(IndexItems)} :
                LET xs == SelectSeq(IndexItems, LAMBDA x : x \in chosen)
                IN  sortItems(sortItems(xs, sort), sort) = sortItems(xs, sort)

\* a search sorted two items that tie on total_installs, the later of the
\* index first, and two items of which one has no total_installs
C15_Witness ==
    \E slot \in Slots :
        /\ ValidSearch(slot)
        /\ Present(SEARCH_INDEX_KEY(SnapDate))
        /\ req[slot].inp.sort = "installs"
        /\ req[slot].resp.status = 200
        /\ Len(req[slot].resp.body.items) = 3
        /\ req[slot].resp.body.items[1].id = IdAlt
        /\ req[slot].resp.body.items[2].id = IdAlpha
        /\ req[slot].resp.body.items[1].total_installs = req[slot].resp.body.items[2].total_installs
        /\ \E i \in 1..Len(IndexItems) : IndexItems[i].total_installs = None


\* the page_size of the per-snapshot manifest of the store, 200 without it
ManifestPageSize ==
    IF Present(SNAPSHOT_SKILLS_MANIFEST_KEY(SnapDate))
    THEN BucketGet(bucket, SNAPSHOT_SKILLS_MANIFEST_KEY(SnapDate)).val.page_size
    ELSE 200

\* the rank of the row at local index i of raw page p
RankOf(p, i) == (p - 1) * ManifestPageSize + i + 1

\* the synthesized record of a 200 response of the detail endpoint or of the
\* pass-through, NilVal when the response holds none
SynthRecord(slot) ==
    LET resp == req[slot].resp
    IN  IF resp.status # 200 THEN NilVal
        ELSE IF resp.body.t = "skill" THEN resp.body
        ELSE IF resp.body.t = "text" /\ resp.body.text.val.t = "skill" THEN resp.body.text.val
        ELSE NilVal

\* C16: every synthesized rank_at_fetch is (p-1)*page_size + i + 1 for the row
\* at local index i of raw page p, with the page_size of the per-snapshot
\* manifest (200 without it): on the leaderboard page of the pass-through, on
\* the snapshot-backed page of /v1/skills, in the synthesized skill record and
\* in the items of the lookup path of /v1/search; the ranks of one page are
\* distinct.
C16_SynthesizedRank ==
    \A slot \in Slots :
        Done(slot) /\ envBound /\ req[slot].resp.status = 200 =>
            LET inp == req[slot].inp
                body == req[slot].resp.body
                board == body.text.val
                rec == SynthRecord(slot)
            IN  /\ (body.t = "text" /\ board.t = "synth-leaderboard") =>
                      /\ Len(board.items) = Len(RowsOf(inp.key.page))
                      /\ \A k \in 1..Len(board.items) :
                            board.items[k].rank_at_fetch = RankOf(inp.key.page, k - 1)
                /\ (body.t = "list" /\ body.skills # <<>>) =>
                      /\ Len(body.items) = Len(RowsOf(inp.page.n))
                      /\ \A k \in 1..Len(body.items) :
                            body.items[k].rank_at_fetch = RankOf(inp.page.n, k - 1)
                      /\ \A j, k \in 1..Len(body.items) :
                            j # k => body.items[j].rank_at_fetch # body.items[k].rank_at_fetch
                /\ rec # NilVal =>
                      rec.rank_at_fetch = RankOf(LookupDoc.entries[rec.id].page,
                                                 LookupDoc.entries[rec.id].index)
                /\ (body.t = "search" /\ Missing(SEARCH_INDEX_KEY(SnapDate))) =>
                      \A k \in 1..Len(body.items) :
                          body.items[k].rank_at_fetch =
                              RankOf(LookupDoc.entries[body.items[k].id].page,
                                     LookupDoc.entries[body.items[k].id].index)

\* without the per-snapshot manifest, the first row of the second raw page has
\* rank 201 in a listing of 200 per page
C16_Witness ==
    \E slot \in Slots :
        /\ Done(slot) /\ req[slot].inp.route = "/v1/skills"
        /\ Missing(SNAPSHOT_SKILLS_MANIFEST_KEY(SnapDate))
        /\ req[slot].resp.status = 200
        /\ req[slot].resp.body.skills # <<>>
        /\ req[slot].resp.body.items[1].rank_at_fetch = 201


\* the compound id a detail or metrics request asks for
RequestedId(inp) == IF inp.route = "/data/v1/" THEN inp.key.id ELSE inp.path

\* the positions of the "/" of a text
Slashes(id) == {i \in 1..Len(id) : id[i] = "/"}

\* C17: a synthesized skill record has the requested compound id as id, its
\* first two segments as owner and repo, canonical_url
\* https://skills.sh/owner/repo/skillId, github_url
\* https://github.com/owner/repo, run_id "snapshot-<date>" and fetched_at
\* <date>T00:00:00.000Z, whatever the raw row holds.
C17_RecordFromIdAndDate ==
    \A slot \in Slots :
        Done(slot) /\ SynthRecord(slot) # NilVal =>
            LET rec == SynthRecord(slot)
                id == RequestedId(req[slot].inp)
                first == CHOOSE i \in Slashes(id) : \A j \in Slashes(id) : i <= j
                last == CHOOSE i \in Slashes(id) : \A j \in Slashes(id) : i >= j
                owner == SubSeq(id, 1, first - 1)
                repo == SubSeq(id, first + 1, last - 1)
                leaf == SubSeq(id, last + 1, Len(id))
            IN  /\ Cardinality(Slashes(id)) = 2
                /\ rec.id = id
                /\ rec.owner = owner /\ rec.repo = repo
                /\ rec.canonical_url =
                      <<"https://skills.sh/">> \o owner \o <<"/">> \o repo \o <<"/">> \o leaf
                /\ rec.github_url = <<"https://github.com/">> \o owner \o <<"/">> \o repo
                /\ rec.run_id = <<"snapshot-", SnapDate>>
                /\ rec.fetched_at = <<SnapDate, "T00:00:00.000Z">>

\* the record of o/r/alpha synthesized from a row that belongs to beta
C17_Witness ==
    \E slot \in Slots :
        /\ Done(slot) /\ req[slot].inp.route = "/v1/skills/"
        /\ SynthRecord(slot) # NilVal
        /\ SynthRecord(slot).id = IdAlpha
        /\ SynthRecord(slot).skill_id = SubSeq(IdBeta, 5, 8)
        /\ SynthRecord(slot).name = NameBeta


\* the store holds no row for the compound id: no lookup document, no lookup
\* entry, no raw page, or no row at the index of the entry
NoRow(id) ==
    \/ Missing(SNAPSHOT_SKILL_LOOKUP_KEY(SnapDate))
    \/ id \notin DOMAIN LookupDoc.entries
    \/ LookupDoc.entries[id].index + 1 \notin 1..Len(RowsOf(LookupDoc.entries[id].page))

\* a GET of the detail or the metrics of a skill, on the endpoint or on the
\* pass-through
ById(inp) ==
    /\ inp.method = "GET"
    /\ \/ inp.route \in {"/v1/skills/", "/v1/metrics/"}
       \/ /\ inp.route = "/data/v1/"
          /\ inp.key.k \in {SKILL_DETAIL_KEY(NoDate, <<>>).k, METRICS_KEY(NoDate, <<>>).k}

\* C18: when the lookup document, the lookup entry, the raw page or the row at
\* the entry's index is missing, detail and metrics synthesis return null
\* without throwing, and the detail endpoint, the metrics endpoint and the
\* pass-through answer 404 "Not found", not 500.
C18_MissingRowIs404 ==
    \A slot \in Slots :
        (/\ Done(slot) /\ envBound /\ ById(req[slot].inp)
         /\ NoRow(RequestedId(req[slot].inp)))
        => /\ req[slot].resp.status = 404
           /\ req[slot].resp.error.msg = "Not found"
           /\ req[slot].badKey = NoKey

\* the metrics of o/r/beta, whose lookup entry points past the only row of the
\* first raw page
C18_Witness ==
    \E slot \in Slots :
        /\ Done(slot) /\ req[slot].inp.route = "/v1/metrics/"
        /\ req[slot].inp.path = IdBeta
        /\ Len(RowsOf(1)) = 1
        /\ SNAPSHOT_SKILLS_PAGE_KEY(SnapDate, 1) \in req[slot].got
        /\ req[slot].resp.status = 404


----------------------------------------------------------------------------
(* Claims about methods and rate-limit headers *)

\* the request of the slot, the first of the worker, was answered without
\* rate-limit accounting and without data access
Untouched(slot) ==
    /\ rateLimitByClient = EmptyMap /\ lastRateLimitSweepMs = 0
    /\ req[slot].resp.rl = NoHeaders
    /\ req[slot].io = 0 /\ req[slot].got = {}
    /\ edgeCache = <<>>
    /\ cachedLatestManifest = NoCached /\ parsedSearchCache = NoCached

\* C19 (as stated): every request whose method is not GET is answered 405
\* "Method not allowed", whatever its path, without rate-limit accounting and
\* without data access.
C19_NonGetIs405 ==
    \A slot \in Slots :
        Done(slot) /\ req[slot].inp.method # "GET" =>
            /\ req[slot].resp.status = 405
            /\ req[slot].resp.error.msg = "Method not allowed"
            /\ Untouched(slot)

\* C19 (amended): every request whose method is neither GET nor OPTIONS is
\* answered 405 "Method not allowed", and every OPTIONS request 204, whatever
\* the path, both without rate-limit accounting and without data access.
C19_NonGetIs405ExceptOptions ==
    \A slot \in Slots :
        Done(slot) /\ req[slot].inp.method # "GET" =>
            /\ IF req[slot].inp.method = "OPTIONS"
               THEN req[slot].resp.status = 204
               ELSE /\ req[slot].resp.status = 405
                    /\ req[slot].resp.error.msg = "Method not allowed"
            /\ Untouched(slot)

\* a HEAD of a rate-limited endpoint, answered 405
C19_Witness ==
    \E slot \in Slots :
        /\ Done(slot) /\ req[slot].inp.method = "HEAD"
        /\ req[slot].inp.route = "/v1/search"
        /\ req[slot].resp.status = 405
        /\ Untouched(slot)


\* C20 (as stated): every response to a request that the rate limiter admitted
\* on a rate-limited endpoint carries X-RateLimit-Limit = 60,
\* X-RateLimit-Remaining = 60 - count, never negative, and X-RateLimit-Reset,
\* whatever its status.
C20_AdmittedCarryHeaders ==
    \A slot \in Slots :
        (/\ Done(slot) /\ req[slot].inp.method = "GET"
         /\ req[slot].inp.route \in RATE_LIMITED
         /\ req[slot].resp.status # 429)
        => LET client == getRateLimitClientId(req[slot].inp.header)
               rl == req[slot].resp.rl
           IN  /\ rl.limit = RATE_LIMIT_MAX_REQUESTS
               /\ client \in DOMAIN rateLimitByClient
               /\ rl.remaining = RATE_LIMIT_MAX_REQUESTS - rateLimitByClient[client].count
               /\ rl.remaining >= 0
               /\ rl.reset # None

\* the same, for the responses that did not come from the catch of fetch
C20_ExceptCaught ==
    (\E slot \in Slots : Done(slot) /\ req[slot].resp.status = 500)
    \/ C20_AdmittedCarryHeaders


----------------------------------------------------------------------------
(* Claims about /healthz, failures and the order of a request's steps *)

\* the store gives loadLatestManifest nothing to resolve: no binding, or a
\* canonical manifest that is not the well-formed one while the legacy pointer
\* cannot stand in for it
ManifestUnresolvable ==
    \/ ~envBound
    \/ LET lm == BucketGet(bucket, LATEST_MANIFEST_KEY)
           ls == BucketGet(bucket, LATEST_SNAPSHOT_KEY)
       IN  /\ lm # JsonText(LatestDoc(SnapDate))
           /\ lm \in {NoText, EmptyText} => ls \in {NoText, BadJsonText}

\* C21: GET /healthz is always answered 200 with ok = true, no-store and no
\* rate-limit accounting; search_index_loaded tells whether the in-process
\* search cache holds a document; and when manifest resolution yields nothing
\* (no binding, null, or an exception) snapshot_date is the date of the
\* in-process search cache, null when that cache is empty.
C21_HealthzAlwaysOk ==
    \A slot \in Slots :
        Done(slot) /\ req[slot].inp.method = "GET" /\ req[slot].inp.route = "/healthz" =>
            LET body == req[slot].resp.body
                held == parsedSearchCache.doc.t # "nil"
            IN  /\ req[slot].resp.status = 200
                /\ body.t = "health" /\ body.ok
                /\ req[slot].resp.cc = "no-store"
                /\ req[slot].resp.rl = NoHeaders
                /\ served = 1 => rateLimitByClient = EmptyMap
                /\ body.search_index_loaded <=> held
                /\ ManifestUnresolvable =>
                      body.snapshot_date =
                          IF held THEN parsedSearchCache.doc.snapshot_date ELSE NoDate
                /\ ~ManifestUnresolvable => body.snapshot_date = SnapDate

\* /healthz answered from the search cache that an earlier search filled, over
\* a canonical manifest that cannot be resolved
C21_Witness ==
    \E slot \in Slots :
        /\ Done(slot) /\ req[slot].inp.route = "/healthz"
        /\ envBound /\ ManifestUnresolvable
        /\ parsedSearchCache.doc.t # "nil"
        /\ req[slot].resp.status = 200
        /\ req[slot].resp.body.search_index_loaded
        /\ req[slot].resp.body.snapshot_date = SnapDate


\* the request parsed an object that makes its handler throw: text that is
\* not JSON, a canonical manifest without a valid date, an invalid slim index
\* (the pass-through serves the text of an object without parsing it)
Raised(slot) ==
    \/ req[slot].badKey # NoKey
    \/ /\ req[slot].inp.route # "/data/v1/"
       /\ LATEST_MANIFEST_KEY \in req[slot].got
       /\ BucketGet(bucket, LATEST_MANIFEST_KEY) = JsonText(LatestDoc(BadCalendarDate))
    \/ /\ req[slot].inp.route # "/data/v1/"
       /\ SEARCH_INDEX_KEY(SnapDate) \in req[slot].got
       /\ BucketGet(bucket, SEARCH_INDEX_KEY(SnapDate)) = JsonText(SlimIndexDoc(SnapDate, FALSE))

C22_Handled ==
    \A slot \in Slots :
        /\ req[slot].phase = "run" => req[slot].load.stage \in {"ready", "match", "get", "put"}
        /\ Done(slot) => req[slot].resp.status \in {200, 204, 400, 404, 405, 429, 500, 503}
        /\ Done(slot) /\ Raised(slot) =>
              req[slot].resp.status = IF req[slot].inp.route = "/healthz" THEN 200 ELSE 500

----------------------------------------------------------------------------
(* Claims about the web API client *)

\* the latest fetch of a url, 0 when it was never fetched
LastFetch(url) ==
    LET ks == {k \in 1..Len(web.promises) :
                 web.promises[k].kind = "fetch" /\ web.promises[k].url = url}
    IN  IF ks = {} THEN 0 ELSE CHOOSE k \in ks : \A j \in ks : j <= k

Settled == \A k \in 1..Len(web.promises) : web.promises[k].state # "pending"

\* C23: a failed fetch is never memoized: no slot of the client (the request
\* cache, manifestPromise, slimSearchIndexPromise) ever holds a rejected
\* promise, and once the failure of the latest fetch of a resource has been
\* delivered its slots are empty, so that the next call fetches again.
C23_FailureNeverMemoized ==
    /\ \A k \in 1..Len(web.promises) :
          web.promises[k].state = "rejected" =>
              /\ web.manifestPromise # k /\ web.slimSearchIndexPromise # k
              /\ \A u \in DOMAIN web.jsonRequestCache : web.jsonRequestCache[u] # k
    /\ \A url \in WebUrls :
          (/\ Settled /\ LastFetch(url) # 0
           /\ web.promises[LastFetch(url)].state = "rejected")
          => /\ url \notin DOMAIN web.jsonRequestCache
             /\ url = "latest" => web.manifestPromise = 0
             /\ url = "slim" => web.slimSearchIndexPromise = 0

\* the slim index fetched a second time, with success, after its first fetch
\* failed
C23_Witness ==
    \E k \in 1..Len(web.promises) :
        /\ web.promises[k].kind = "fetch" /\ web.promises[k].url = "slim"
        /\ web.promises[k].state = "rejected"
        /\ k < LastFetch("slim")
        /\ web.slimSearchIndexPromise # 0
        /\ web.promises[web.slimSearchIndexPromise].state = "ok"


----------------------------------------------------------------------------
(* Claims about concurrent requests *)

\* the rate limiter admitted the request of the slot, in flight or answered
Admitted(slot) ==
    /\ req[slot].phase # "idle" /\ req[slot].inp.method = "GET"
    /\ req[slot].inp.route \in RATE_LIMITED
    /\ ~(req[slot].phase = "done" /\ req[slot].resp.status \in {429, 500})

\* X-RateLimit-Remaining as computed at the admission of the request
RemainingAt(slot) ==
    IF req[slot].phase = "done" THEN req[slot].resp.rl.remaining ELSE req[slot].rl.remaining

\* C24: whatever the interleaving of the requests in flight, the admission of a
\* request is one atomic step: no increment is lost (two requests of a client
\* admitted in one window never saw the same count, and the count is at least
\* what each of them left) and the count of a window never exceeds 60.
C24_AtomicAdmission ==
    /\ \A c \in DOMAIN rateLimitByClient :
          rateLimitByClient[c].count <= RATE_LIMIT_MAX_REQUESTS
    /\ \A slot \in Slots2 :
          Admitted(slot) =>
              /\ RemainingAt(slot) >= 0
              /\ rateLimitByClient[UNKNOWN_CLIENT].count
                    >= RATE_LIMIT_MAX_REQUESTS - RemainingAt(slot)
    /\ \A s1, s2 \in Slots2 :
          s1 # s2 /\ Admitted(s1) /\ Admitted(s2) => RemainingAt(s1) # RemainingAt(s2)

\* the 60th request of the window still in flight when the next request of the
\* client is blocked
C24_Witness ==
    \E s1, s2 \in Slots2 :
        /\ req[s1].phase = "run" /\ Admitted(s1) /\ RemainingAt(s1) = 0
        /\ req[s1].io > 0
        /\ req[s2].phase = "done" /\ req[s2].resp.status = 429
        /\ rateLimitByClient[UNKNOWN_CLIENT].count = RATE_LIMIT_MAX_REQUESTS

\* two requests of one client admitted while both are in flight
C24_BothInFlight ==
    \E s1, s2 \in Slots2 :
        /\ s1 # s2 /\ req[s1].phase = "run" /\ req[s2].phase = "run"
        /\ Admitted(s1) /\ Admitted(s2)
        /\ req[s1].io > 0 /\ req[s2].io > 0


\* C25 (as stated): within a request, the rate-limit check precedes every
\* read of the store and every read or write of the edge cache: a request
\* that accessed data was checked, hence counted, by the rate limiter.
C25_CheckBeforeData ==
    \A slot \in Slots :
        req[slot].io > 0 =>
            /\ getRateLimitClientId(req[slot].inp.header) \in DOMAIN rateLimitByClient
            /\ req[slot].inp.route \in RATE_LIMITED

\* C25 (amended): on the rate-limited endpoints (/v1/search, /v1/skills,
\* /v1/skills/:id, /v1/metrics/:id, /v1/stats/summary) the rate-limit check
\* precedes every data access of the request, and a blocked request accesses
\* no data; /healthz and the /data/v1 pass-through are not rate limited and
\* access the store and the edge cache without any check.
C25_CheckBeforeDataWhereLimited ==
    \A slot \in Slots :
        /\ (req[slot].phase # "idle" /\ req[slot].inp.method = "GET"
            /\ req[slot].inp.route \in RATE_LIMITED) =>
              /\ getRateLimitClientId(req[slot].inp.header) \in DOMAIN rateLimitByClient
              /\ (req[slot].phase = "done" /\ req[slot].resp.status = 429)
                    => req[slot].io = 0
              /\ req[slot].phase = "run" => req[slot].rl # NoHeaders
        /\ (req[slot].io > 0 /\ req[slot].inp.route \notin RATE_LIMITED) =>
              /\ req[slot].inp.route \in {"/healthz", "/data/v1/"}
              /\ req[slot].rl = NoHeaders /\ req[slot].resp.rl = NoHeaders

\* a search in flight that has read the store after the rate limiter counted it
C25_Witness ==
    \E slot \in Slots :
        /\ req[slot].phase = "run" /\ req[slot].inp.route = "/v1/search"
        /\ req[slot].got # {}
        /\ served = 1
        /\ rateLimitByClient[UNKNOWN_CLIENT].count = 1


----------------------------------------------------------------------------
(* Claims about the edge cache and the in-process caches *)

\* the caller of loadJsonTextWithCache in the slot, resumed with a text after
\* one more operation
Returned(slot, text) == Resume([St(slot) EXCEPT !.r.io = @ + 1], text).r

\* C26: in loadJsonTextWithCache, when the edge cache holds an entry under the
\* cache key, the cached text is returned and the store is not read (nor the
\* edge cache written); when it holds none and the object exists, the text read
\* from the store is written to the edge cache under that key, leaving the
\* other entries alone, and the same text is returned.
C26_HitSkipsStoreMissFills ==
    [][\A slot \in Slots :
        LET r == req[slot]
            text == BucketGet(bucket, r.load.key)
        IN  (r.phase = "run" /\ req'[slot] # r) =>
            /\ (r.load.stage = "match" /\ r.load.url \in DOMAIN edgeCache) =>
                  /\ req'[slot] = Returned(slot, edgeCache[r.load.url])
                  /\ req'[slot].got = r.got
                  /\ edgeCache' = edgeCache
            /\ (r.load.stage = "match" /\ r.load.url \notin DOMAIN edgeCache) =>
                  /\ req'[slot].load = [r.load EXCEPT !.stage = "get"]
                  /\ edgeCache' = edgeCache
            /\ (r.load.stage = "get" /\ text # NoText) =>
                  /\ req'[slot].load = [r.load EXCEPT !.stage = "put", !.text = text]
                  /\ r.load.key \in req'[slot].got
                  /\ edgeCache' = edgeCache
            /\ r.load.stage = "put" =>
                  /\ r.load.text = text
                  /\ DOMAIN edgeCache' = DOMAIN edgeCache \cup {r.load.url}
                  /\ \A u \in DOMAIN edgeCache' :
                        edgeCache'[u] = IF u = r.load.url THEN text ELSE edgeCache[u]
                  /\ req'[slot] = Returned(slot, text)]_vars

\* a second request answered 200 from the edge cache alone, which the first
\* request filled from the store
C26_Witness ==
    \E slot \in Slots :
        /\ Done(slot) /\ served = 2
        /\ req[slot].resp.status = 200
        /\ req[slot].io > 0 /\ req[slot].got = {}
        /\ \E u \in DOMAIN edgeCache : \E k \in DOMAIN bucket : edgeCache[u] = bucket[k]


\* C27: loading a key whose object does not exist, or loading without a
\* storage binding, returns null without throwing and leaves the edge cache
\* as it is: the edge cache never holds an entry for a missing object, and a
\* load of a key whose object exists by then, published since an earlier load
\* or not, returns the text of the object.
C27_AbsenceNeverCached ==
    /\ [](\A u \in DOMAIN edgeCache :
            edgeCache[u] # NoText /\ \E k \in DOMAIN bucket : bucket[k] = edgeCache[u])
    /\ [](~envBound => edgeCache = <<>> /\ \A slot \in Slots : req[slot].io = 0)
    /\ [][\A slot \in Slots :
            LET r == req[slot]
                text == BucketGet(bucket, r.load.key)
            IN  (/\ r.phase = "run" /\ req'[slot] # r
                 /\ \/ r.load.stage = "match" /\ r.load.url \in DOMAIN edgeCache
                    \/ r.load.stage = "get" /\ text = NoText
                    \/ r.load.stage = "put")
                => /\ req'[slot] =
                         Resume([St(slot) EXCEPT
                                   !.r.io = @ + 1,
                                   !.r.got = IF r.load.stage = "get"
                                             THEN @ \cup {r.load.key} ELSE @], text).r
                   /\ text = NoText =>
                         /\ edgeCache' = edgeCache
                         /\ ~(req'[slot].phase = "done" /\ req'[slot].resp.status = 500)]_vars

\* the pass-through of the canonical manifest found no object, the manifest was
\* published before the request went on to resolve it, and the next load of the
\* key, by the same request, read it from the store: with no legacy pointer in
\* the store, the 200 is synthesized from the published manifest
C27_Witness ==
    \E slot \in Slots :
        /\ Done(slot) /\ req[slot].inp.route = "/data/v1/"
        /\ req[slot].inp.key = LATEST_MANIFEST_KEY
        /\ req[slot].resp.status = 200
        /\ served = 1
        /\ bucket[LATEST_SNAPSHOT_KEY] = NoText
        /\ bucket[LATEST_MANIFEST_KEY] # NoText
        /\ cacheRequest("static", LATEST_MANIFEST_KEY.k, NoDate, 0, <<>>) \notin DOMAIN edgeCache
        /\ cachedLatestManifest.doc.t # "nil"


\* the request begun in this step calls loadLatestManifest first
ManifestFirst(inp) ==
    /\ inp.method = "GET" /\ inp.snap = NoDate
    /\ inp.route \in {"/healthz", "/v1/search"}

\* the request begun in this step calls loadSearchIndex first
IndexFirst(inp) ==
    inp.method = "GET" /\ inp.route = "/v1/search" /\ inp.snap # NoDate

\* C28: a request that asks for the manifest or for the search index of a
\* snapshot while the in-process cache holds one is given the cached document,
\* without storage or edge-cache access, exactly while now - loaded_at <
\* 60,000 ms (for the index, and the cached key is the key of the requested
\* snapshot); from now - loaded_at = 60,000 ms on it goes to the edge cache
\* and the store for the object, and what it loads replaces the cached
\* document with the time of that load.
C28_FreshExactlyBelowTtl ==
    /\ [][\A slot \in Slots :
            LET inp == req'[slot].inp
                r == req'[slot]
            IN  (req[slot].phase = "idle" /\ r.phase = "run") =>
                /\ (ManifestFirst(inp) /\ cachedLatestManifest.doc.t # "nil") =>
                      IF now - cachedLatestManifest.loadedAtMs < 60000
                      THEN /\ r.load.stage = "ready" /\ r.ret = cachedLatestManifest.doc
                           /\ r.io = 0
                      ELSE /\ r.load.stage = "match" /\ r.load.key = LATEST_MANIFEST_KEY
                           /\ r.t0 = now
                /\ (IndexFirst(inp) /\ parsedSearchCache.doc.t # "nil") =>
                      IF /\ now - parsedSearchCache.loadedAtMs < 60000
                         /\ parsedSearchCache.key = SEARCH_INDEX_KEY(inp.snap)
                      THEN /\ r.load.stage = "ready" /\ r.ret = parsedSearchCache.doc
                           /\ r.io = 0
                      ELSE /\ r.load.stage = "match"
                           /\ r.load.key = SEARCH_INDEX_KEY(inp.snap)
                           /\ r.t0 = now]_vars
    /\ [][/\ cachedLatestManifest' # cachedLatestManifest =>
                \E slot \in Slots : cachedLatestManifest'.loadedAtMs = req[slot].t0
          /\ parsedSearchCache' # parsedSearchCache =>
                \E slot \in Slots : parsedSearchCache'.loadedAtMs = req[slot].t0]_vars

\* a manifest loaded at the first instant, found expired by the /healthz that
\* arrived exactly 60,000 ms later, which read it from the edge cache the first
\* request filled and replaced the cached document
C28_Witness ==
    \E slot \in Slots :
        /\ Done(slot) /\ served = 2 /\ req[slot].inp.route = "/healthz"
        /\ LATEST_MANIFEST_KEY \notin req[slot].got /\ req[slot].io > 0
        /\ cachedLatestManifest.loadedAtMs = StartMs + IN_MEMORY_CACHE_TTL_MS

\* a manifest 59,999 ms old given to a search that then loads the index
C28_StillFresh ==
    \E slot \in Slots :
        /\ req[slot].phase = "run" /\ served = 2 /\ req[slot].inp.route = "/v1/search"
        /\ req[slot].inp.snap = NoDate
        /\ req[slot].load.key = SEARCH_INDEX_KEY(SnapDate)
        /\ now - cachedLatestManifest.loadedAtMs = IN_MEMORY_CACHE_TTL_MS - 1
        /\ req[slot].t0 = now


\* C29 (as stated): manifest resolution reads the canonical manifest first
\* and, when the object exists, never reads the legacy pointer; a canonical
\* manifest without a valid snapshot_date makes resolution fail (500 from the
\* endpoints that let the error through) instead of falling back.
C29_CanonicalNeverFallsBack ==
    \A slot \in Slots :
        LET lm == BucketGet(bucket, LATEST_MANIFEST_KEY)
        IN  /\ LATEST_SNAPSHOT_KEY \in req[slot].got =>
                  LATEST_MANIFEST_KEY \in req[slot].got
            /\ (LATEST_MANIFEST_KEY \in req[slot].got /\ lm # NoText) =>
                  LATEST_SNAPSHOT_KEY \notin req[slot].got
            /\ (/\ Done(slot) /\ LATEST_MANIFEST_KEY \in req[slot].got
                /\ lm = JsonText(LatestDoc(BadCalendarDate))
                /\ req[slot].inp.route \in RATE_LIMITED)
               => /\ req[slot].resp.status = 500
                  /\ req[slot].resp.error.msg = "latest.json missing valid snapshot_date"


\* C30: requests that missed the edge cache for one cache key each read the
\* store and each write the edge cache, whatever the other has done meanwhile;
\* the object being immutable, each writes the text of the object, every entry
\* of the edge cache is at all times the text of its object, and each of the
\* requests resumes its caller with that text.
C30_ConcurrentMissesAgree ==
    /\ [](\A slot \in Slots2 :
            LET r == req[slot]
            IN  /\ (r.phase = "run" /\ r.load.stage = "put") =>
                      r.load.text = BucketGet(bucket, r.load.key) /\ r.load.key \in r.got
                /\ (r.phase = "run" /\ r.load.stage \in {"match", "get", "put"}
                    /\ r.load.url \in DOMAIN edgeCache) =>
                      edgeCache[r.load.url] = BucketGet(bucket, r.load.key))
    /\ [][\A slot \in Slots2 :
            LET r == req[slot]
                text == BucketGet(bucket, r.load.key)
            IN  (r.phase = "run" /\ req'[slot] # r) =>
                /\ (r.load.stage = "get" /\ text # NoText) =>
                      /\ req'[slot].load = [r.load EXCEPT !.stage = "put", !.text = text]
                      /\ r.load.key \in req'[slot].got
                /\ r.load.stage = "put" =>
                      /\ edgeCache'[r.load.url] = text
                      /\ req'[slot] = Returned(slot, text)]_vars

\* two requests that both missed the edge cache for one cache key and both
\* read the object, each about to write the edge cache
C30_Witness ==
    \E s1, s2 \in Slots2 :
        /\ s1 # s2
        /\ req[s1].phase = "run" /\ req[s1].load.stage = "put"
        /\ req[s2].phase = "run" /\ req[s2].load.stage = "put"
        /\ req[s1].load.url = req[s2].load.url
        /\ req[s1].load.url \notin DOMAIN edgeCache
        /\ req[s1].load.text = req[s2].load.text

\* two requests that missed the edge cache for one key, the first has written
\* the entry and the second, about to write it again, finds the same text there
C30_SecondWrite ==
    \E s1, s2 \in Slots2 :
        /\ s1 # s2 /\ Done(s1) /\ req[s1].resp.status = 200
        /\ req[s2].phase = "run" /\ req[s2].load.stage = "put"
        /\ req[s2].load.url \in DOMAIN edgeCache
        /\ req[s2].load.key \in req[s1].got
        /\ edgeCache[req[s2].load.url] = req[s2].load.text


----------------------------------------------------------------------------
(* Claims about the in-process caches as shared documents *)

\* C31: no handler mutates a document of the in-process caches: the cached
\* index is at all times the document parsed from the text of its object,
\* items and order included, whatever was filtered, sorted and paginated from
\* it, and a cache slot changes only when a load replaces it wholesale with
\* the document it parsed and the time the load began.
C31_CachedDocumentsImmutable ==
    /\ [](parsedSearchCache.doc.t # "nil" =>
            JsonText(parsedSearchCache.doc) = BucketGet(bucket, parsedSearchCache.key))
    /\ [][\A slot \in Slots :
            req'[slot] # req[slot] =>
                /\ parsedSearchCache' # parsedSearchCache =>
                      /\ req[slot].phase = "run" /\ Head(req[slot].pc) = "lsi"
                      /\ parsedSearchCache' =
                            [key |-> req[slot].load.key, loadedAtMs |-> req[slot].t0,
                             doc |-> BucketGet(bucket, req[slot].load.key).val]
                /\ cachedLatestManifest' # cachedLatestManifest =>
                      /\ req[slot].phase = "run"
                      /\ Head(req[slot].pc) \in {"llm:web", "obj"}
                      /\ cachedLatestManifest'.loadedAtMs = req[slot].t0
                      /\ cachedLatestManifest'.doc.snapshot_date = SnapDate]_vars

\* a listing with an empty query, answered with the items sorted, while the
\* cached index keeps the order of its object, which is not the sorted one
C31_Witness ==
    \E slot \in Slots :
        /\ Done(slot) /\ req[slot].inp.route = "/v1/skills" /\ req[slot].inp.method = "GET"
        /\ req[slot].resp.status = 200 /\ req[slot].resp.body.t = "list"
        /\ req[slot].resp.body.items # <<>>
        /\ parsedSearchCache.doc.t # "nil"
        /\ sortItems(parsedSearchCache.doc.items, req[slot].resp.body.sort)
              # parsedSearchCache.doc.items


----------------------------------------------------------------------------
(* Claims about the sweep of the rate-limit map *)

\* C32: two consecutive sweeps are at least 60,000 ms apart; a sweep removes
\* exactly the entries with now - windowStartMs >= 60,000 and leaves every
\* live entry as it was; and every request gets the decision (blocked or not,
\* Retry-After, rate-limit headers) that a limiter which never sweeps gives it
\* after the same requests at the same instants.
C32_SweepIsInvisible ==
    /\ [](/\ rlLast.unswept.blocked = rlLast.blocked
          /\ rlLast.unswept.retryAfter = rlLast.retryAfter
          /\ rlLast.unswept.headers = rlLast.headers)
    /\ [][/\ lastRateLimitSweepMs' # lastRateLimitSweepMs =>
                /\ lastRateLimitSweepMs' - lastRateLimitSweepMs >= 60000
                /\ lastRateLimitSweepMs' = now
                /\ \A c \in (DOMAIN rateLimitByClient \cup DOMAIN rateLimitByClient')
                            \ {rlLast'.clientId} :
                      c \in DOMAIN rateLimitByClient' <=>
                          now - rateLimitByClient[c].windowStartMs < 60000
          /\ (rlLast' # rlLast /\ lastRateLimitSweepMs' = lastRateLimitSweepMs) =>
                DOMAIN rateLimitByClient \subseteq DOMAIN rateLimitByClient'
          /\ \A c \in DOMAIN rateLimitByClient' \ {rlLast'.clientId} :
                /\ c \in DOMAIN rateLimitByClient
                /\ rateLimitByClient'[c] = rateLimitByClient[c]]_vars

\* a due sweep has just dropped another client's elapsed entry while the
\* caller, in a live window, was counted as its second request
C32_Witness ==
    /\ rlLast.at = lastRateLimitSweepMs /\ rlLast.at > StartMs
    /\ ~rlLast.blocked /\ rlLast.headers.remaining = 58
    /\ DOMAIN rlLast.unswept.map # DOMAIN rateLimitByClient


----------------------------------------------------------------------------
(* Claims about page and page_size *)

\* the number a page parameter asks for, the default standing in for a
\* parameter that is absent or not a finite number
Requested(value, default) == IF value.kind \in {"absent", "nan"} THEN default ELSE value.n

\* C33 (as stated): the page of a /v1/search or /v1/skills answer is the
\* requested page, 1 when the parameter is absent or not a number, raised to
\* at least 1; its page_size is the requested one, by default 12 on /v1/search
\* and 200 on /v1/skills, clamped to [1, 50] and [1, 200].
C33_PageCoercion ==
    \A slot \in Slots :
        (/\ Done(slot) /\ req[slot].inp.method = "GET"
         /\ req[slot].inp.route \in {"/v1/search", "/v1/skills"}
         /\ req[slot].resp.status = 200)
        => LET inp == req[slot].inp
               body == req[slot].resp.body
               search == inp.route = "/v1/search"
           IN  /\ body.page = Max(1, Requested(inp.page, 1))
               /\ body.page_size =
                    Min(IF search THEN 50 ELSE 200,
                        Max(1, Requested(inp.pageSize, IF search THEN 12 ELSE 200)))


----------------------------------------------------------------------------
(* Claims about the lookup-fallback path of /v1/search *)

\* the lookup document of the store and its keys that contain the query
StoreLookup == BucketGet(bucket, SNAPSHOT_SKILL_LOOKUP_KEY(SnapDate)).val
LookupHits(q) ==
    {id \in DOMAIN StoreLookup.entries : includes(toLowerCase(id), toLowerCase(Trim(q)))}

\* the search of the slot was answered from the lookup document
ViaLookup(slot) ==
    /\ ValidSearch(slot) /\ req[slot].resp.status = 200
    /\ Missing(SEARCH_INDEX_KEY(SnapDate))
    /\ Present(SNAPSHOT_SKILL_LOOKUP_KEY(SnapDate))

\* C34: on the lookup path total is the number of lookup keys that contain
\* the lower-cased query, whatever the names of the rows; every item carries
\* such a key; with sort = name the items stand in ascending order of id,
\* with any other sort in ascending order of (page, index) of their entries
\* and so of strictly increasing rank_at_fetch.
C34_LookupOrder ==
    \A slot \in Slots :
        ViaLookup(slot)
        => LET inp == req[slot].inp
               body == req[slot].resp.body
               ref(i) == StoreLookup.entries[body.items[i].id]
           IN  /\ body.total = Cardinality(LookupHits(inp.q))
               /\ \A i \in 1..Len(body.items) : body.items[i].id \in LookupHits(inp.q)
               /\ \A i \in 1..(Len(body.items) - 1) :
                    IF inp.sort = "name"
                    THEN LocaleLess(body.items[i].id, body.items[i + 1].id)
                    ELSE /\ \/ ref(i).page < ref(i + 1).page
                            \/ ref(i).page = ref(i + 1).page /\ ref(i).index < ref(i + 1).index
                         /\ body.items[i].rank_at_fetch < body.items[i + 1].rank_at_fetch

\* three items by name, in an order that is not their order of rank
C34_Witness ==
    \E slot \in Slots :
        /\ ViaLookup(slot) /\ Len(req[slot].resp.body.items) = 3
        /\ req[slot].inp.sort = "name"
        /\ req[slot].resp.body.items[1].rank_at_fetch
              > req[slot].resp.body.items[2].rank_at_fetch



\* the raw page keys of the snapshot
PageKeys == {SNAPSHOT_SKILLS_PAGE_KEY(SnapDate, n) : n \in 1..2}

\* the lookup entry of the id points at a row of the store
HasRow(id) == StoreLookup.entries[id].index + 1 \in 1..Len(RowsOf(StoreLookup.entries[id].page))

\* C35: while the selected ids of one lookup-path search are resolved, no raw
\* page is loaded a second time, a missing page included (a load of a raw page
\* never begins for a page the request has already read from the bucket); and
\* the request is answered 200 with the ids that have a row, in particular
\* with every matching id that has one when the page holds the whole result,
\* the ids whose page or row is missing being left out.
C35_PagesLoadedOnce ==
    /\ [][\A slot \in Slots :
            (/\ req'[slot].load.stage = "match" /\ req'[slot].load.key \in PageKeys
             /\ req[slot].load.stage # "match" \/ req[slot].load.key # req'[slot].load.key)
            => req'[slot].load.key \notin req'[slot].got]_vars
    /\ [](\A slot \in Slots :
            (/\ ValidSearch(slot) /\ envBound /\ Missing(SEARCH_INDEX_KEY(SnapDate))
             /\ Present(SNAPSHOT_SKILL_LOOKUP_KEY(SnapDate)))
            => LET inp == req[slot].inp
                   body == req[slot].resp.body
                   ids == {body.items[i].id : i \in 1..Len(body.items)}
               IN  /\ req[slot].resp.status = 200
                   /\ ids \subseteq {id \in LookupHits(inp.q) : HasRow(id)}
                   /\ Cardinality(ids) = Len(body.items)
                   /\ (PageOf(inp) = 1 /\ SizeOf(inp) >= body.total)
                        => ids = {id \in LookupHits(inp.q) : HasRow(id)})

\* the first raw page is missing and two of the three selected ids point at
\* it: both are left out and the answer holds the third
C35_Witness ==
    \E slot \in Slots :
        /\ ValidSearch(slot) /\ req[slot].resp.status = 200
        /\ Missing(SEARCH_INDEX_KEY(SnapDate))
        /\ Missing(SNAPSHOT_SKILLS_PAGE_KEY(SnapDate, 1))
        /\ SNAPSHOT_SKILLS_PAGE_KEY(SnapDate, 1) \in req[slot].got
        /\ req[slot].resp.body.total = 3
        /\ Len(req[slot].resp.body.items) = 1


----------------------------------------------------------------------------
(* Claims about the sorts of synthesized leaderboard pages *)

\* the raw objects of the snapshot from which a leaderboard page is synthesized
RawKeys == PageKeys \cup {SNAPSHOT_SKILLS_MANIFEST_KEY(SnapDate)}

\* C36: a leaderboard page is synthesized from raw rows only for sort =
\* installs: a pass-through request for a pre-rendered page of sort weekly or
\* name that the store lacks is answered 404 without a read of a raw object,
\* also when the raw page exists; and a /v1/skills listing with an empty
\* query and sort weekly or name reads no raw page and answers without raw
\* rows.
C36_SynthesisOnlyForInstalls ==
    \A slot \in Slots :
        LET inp == req[slot].inp
        IN  /\ (/\ inp.method = "GET" /\ inp.route = "/data/v1/" /\ envBound
                /\ inp.key.k = LEADERBOARD_PAGE_KEY(NoDate, "", 0).k
                /\ inp.key.id \in {<<"weekly">>, <<"name">>}
                /\ Missing(inp.key))
               => /\ req[slot].got \cap RawKeys = {}
                  /\ Done(slot) => req[slot].resp.status = 404
            /\ (/\ inp.method = "GET" /\ inp.route = "/v1/skills"
                /\ Trim(inp.q) = <<>> /\ inp.sort \in {"weekly", "name"})
               => /\ req[slot].got \cap RawKeys = {}
                  /\ (Done(slot) /\ req[slot].resp.status = 200)
                        => req[slot].resp.body.t = "list" /\ req[slot].resp.body.skills = <<>>

\* the raw first page exists and the pass-through request for the first
\* leaderboard page by weekly installs is answered 404
C36_Witness ==
    \E slot \in Slots :
        /\ Done(slot) /\ req[slot].inp.method = "GET" /\ req[slot].inp.route = "/data/v1/"
        /\ req[slot].inp.key = LEADERBOARD_PAGE_KEY(SnapDate, "weekly", 1)
        /\ envBound /\ Present(SNAPSHOT_SKILLS_PAGE_KEY(SnapDate, 1))
        /\ req[slot].resp.status = 404


----------------------------------------------------------------------------
(* Claims about blocked requests *)

\* C37: the step of a request that is answered 429 leaves the entry of its
\* client as it was, with count 60, adds no entry, changes or removes no
\* entry of another client except to remove an elapsed one, and leaves the
\* bucket, the edge cache, cachedLatestManifest and parsedSearchCache
\* unchanged; the request is done at once, without a bucket or edge-cache
\* access (only the sweep time may change besides).
C37_BlockedChangesNothing ==
    [][\A slot \in Slots :
        (req[slot].phase = "idle" /\ req'[slot].phase # "idle" /\ req'[slot].resp.status = 429)
        => LET c == getRateLimitClientId(req'[slot].inp.header)
           IN  /\ c \in DOMAIN rateLimitByClient /\ c \in DOMAIN rateLimitByClient'
               /\ rateLimitByClient'[c] = rateLimitByClient[c]
               /\ rateLimitByClient[c].count = 60
               /\ DOMAIN rateLimitByClient' \subseteq DOMAIN rateLimitByClient
               /\ \A d \in DOMAIN rateLimitByClient :
                     IF d \in DOMAIN rateLimitByClient'
                     THEN rateLimitByClient'[d] = rateLimitByClient[d]
                     ELSE now - rateLimitByClient[d].windowStartMs >= 60000
               /\ bucket' = bucket /\ edgeCache' = edgeCache
               /\ cachedLatestManifest' = cachedLatestManifest
               /\ parsedSearchCache' = parsedSearchCache
               /\ req'[slot].phase = "done"
               /\ req'[slot].io = 0 /\ req'[slot].got = {}]_vars

\* a blocked search after a request that filled both caches, at an instant
\* when the sweep it ran removed the elapsed entry of the busy client
C37_Witness ==
    \E slot \in Slots :
        /\ Done(slot) /\ req[slot].resp.status = 429
        /\ cachedLatestManifest # NoCached /\ edgeCache # <<>>
        /\ lastRateLimitSweepMs = now
        /\ DOMAIN rateLimitByClient = {UNKNOWN_CLIENT}
        /\ rateLimitByClient[UNKNOWN_CLIENT].count = 60



\* C38: a client whose latest request was blocked at t with Retry-After r and
\* that sends its next request at an instant >= t + r * 1000 ms is admitted:
\* the request opens a fresh window at that instant with count 1 and
\* X-RateLimit-Remaining 59, whatever the other clients sent in between.
C38_AdmittedAfterRetryAfter ==
    [][(/\ rlLast' # rlLast
        /\ rlLast'.clientId \in DOMAIN rlLast.retryAt
        /\ rlLast.retryAt[rlLast'.clientId].open
        /\ now >= rlLast.retryAt[rlLast'.clientId].at)
       => /\ ~rlLast'.blocked
          /\ rlLast'.headers.remaining = 59
          /\ rateLimitByClient'[rlLast'.clientId] = [windowStartMs |-> now, count |-> 1]]_vars

\* the busy client, blocked 1 s into its window with Retry-After 59, is
\* admitted 59,000 ms later, at the first instant after the window that no
\* sweep has touched, after a request of another client
C38_Witness ==
    /\ rlLast.clientId = BusyIp /\ ~rlLast.blocked
    /\ rlLast.at = StartMs + 59000
    /\ lastRateLimitSweepMs = StartMs - 999
    /\ BusyIp \in DOMAIN rlLast.retryAt
    /\ ~rlLast.retryAt[BusyIp].open
    /\ rlLast.others = 1
    /\ rlLast.headers.remaining = 59
    /\ rateLimitByClient[BusyIp] = [windowStartMs |-> StartMs + 59000, count |-> 1]

----------------------------------------------------------------------------
(* Claims about the writes of the in-process manifest cache *)

\* C39: cachedLatestManifest is written only by a resolution that produced a
\* validated manifest: it always holds nothing or a manifest with a valid
\* snapshot_date; a step changes it only when the store holds a canonical
\* manifest with a valid date, or no canonical text and a legacy pointer with
\* a valid date, and then to that manifest; the step in which a resolution
\* returns null, or a request ends in an error, leaves it as it was; and a
\* later request that asks for the manifest of a store that has none to give
\* goes to the edge cache and the store again.
C39_FailureLeavesManifestCache ==
    /\ [](/\ cachedLatestManifest # NoCached =>
                /\ cachedLatestManifest.doc.t = "latest"
                /\ isDateString(cachedLatestManifest.doc.snapshot_date)
          /\ \A slot \in Slots :
                (/\ Done(slot) /\ served = 2 /\ ManifestFirst(req[slot].inp)
                 /\ req[slot].resp.status \notin {400, 429}
                 /\ envBound /\ ManifestUnresolvable)
                => req[slot].io >= 1 /\ cachedLatestManifest = NoCached)
    /\ [][/\ cachedLatestManifest' # cachedLatestManifest =>
                LET lm == BucketGet(bucket, LATEST_MANIFEST_KEY)
                    ls == BucketGet(bucket, LATEST_SNAPSHOT_KEY)
                IN  /\ envBound
                    /\ \/ /\ lm.json = "ok" /\ isDateString(lm.val.snapshot_date)
                          /\ cachedLatestManifest'.doc = lm.val
                       \/ /\ lm \in {NoText, EmptyText}
                          /\ ls.json = "ok" /\ isDateString(ls.val.date)
                          /\ cachedLatestManifest'.doc.snapshot_date = ls.val.date
          /\ \A slot \in Slots :
                (\/ req'[slot].nullLatest /\ ~req[slot].nullLatest
                 \/ /\ req[slot].phase = "run" /\ req'[slot].phase = "done"
                    /\ req'[slot].resp.status \in {500, 503})
                => cachedLatestManifest' = cachedLatestManifest]_vars

\* the second request of the isolate finds neither manifest object, having
\* read the store for both, and the cache holds nothing
C39_Witness ==
    \E slot \in Slots :
        /\ Done(slot) /\ served = 2 /\ req[slot].nullLatest
        /\ ManifestFirst(req[slot].inp)
        /\ {LATEST_MANIFEST_KEY, LATEST_SNAPSHOT_KEY} \subseteq req[slot].got
        /\ req[slot].resp.status = 503
        /\ cachedLatestManifest = NoCached



\* C40 (as stated): under every interleaving of concurrent resolutions the
\* in-process manifest cache never moves backwards: a write stores a
\* loadedAtMs not smaller than the one it replaces, so that a resolution that
\* began earlier and ends later does not overwrite what a resolution begun
\* after it has stored.
C40_ManifestCacheMonotonic ==
    [][cachedLatestManifest' # cachedLatestManifest =>
          cachedLatestManifest'.loadedAtMs >= cachedLatestManifest.loadedAtMs]_vars

====
